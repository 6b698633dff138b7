--------------------------- MODULE MCXmodemRescue ---------------------------
(***************************************************************************)
(* Files and chips for model checking XmodemRescue.                        *)
(***************************************************************************)
EXTENDS XmodemRescue

\* app: a little over a page; fw: the same with a ROM_EXT in front; big: does
\* not fit; block: an owner block; msg, bad: messages, bad of a forbidden type.
MCFiles == {"app", "fw", "big", "block", "msg", "bad"}
MCFileUnits ==
  [f \in MCFiles |-> CASE f \in {"app", "fw"} -> 7 [] f = "big" -> 13
                       [] f = "block" -> 6 [] OTHER -> 2]

Chip_(active, config, allowed, accepts, timeout) ==
  [active |-> active, config |-> config, allowed |-> allowed,
   acceptsOwner |-> accepts, timeout |-> timeout]

\* A chip without a rescue configuration, one whose owner allows everything
\* but one type of message, and one that allows little and waits idle.
MCSetups ==
  {Chip_("A", FALSE, {}, FALSE, FALSE),
   Chip_("B", TRUE, (Modes \cup Files) \ {"bad"}, TRUE, TRUE),
   Chip_("A", TRUE, {"firmwareB", "bootLog", "noop"}, TRUE, TRUE)}

Send_(mode, file, size) == [mode |-> mode, file |-> file, size |-> size]

MCSends ==
  {Send_("firmware", "app", LongFrame), Send_("firmwareB", "app", 1),
   Send_("firmware", "fw", LongFrame), Send_("firmwareB", "fw", LongFrame),
   Send_("firmware", "big", LongFrame), Send_("ownerBlock", "block", LongFrame),
   Send_("bootSvcReq", "msg", 1), Send_("bootSvcReq", "bad", LongFrame)}
=============================================================================
