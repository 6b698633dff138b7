---------------------------- MODULE MCDfuRescue ----------------------------
(***************************************************************************)
(* Files and chips for model checking DfuRescue.                           *)
(***************************************************************************)
EXTENDS DfuRescue

\* app: a little over a page; fw: the same with a ROM_EXT in front; big: does
\* not fit, and its third block begins with 0xFF; holes: its first page ends in 0xFF; block: an
\* owner block; msg, bad: messages, bad of a forbidden type.
MCFiles == {"app", "fw", "big", "holes", "block", "msg", "bad"}
MCFileUnits ==
  [f \in MCFiles |-> CASE f \in {"app", "fw", "holes"} -> 6 [] f = "big" -> 12
                       [] f = "block" -> 4 [] OTHER -> 2]
MCGaps == {<< "holes", 3 >>, << "holes", 4 >>, << "big", 9 >>, << "big", 10 >>}

Chip_(active, config, allowed, accepts, timeout) ==
  [active |-> active, config |-> config, allowed |-> allowed,
   acceptsOwner |-> accepts, timeout |-> timeout]

\* A chip without a rescue configuration, one whose owner allows everything
\* but one type of message, and one that allows little and waits idle.
MCSetups ==
  {Chip_("A", FALSE, {}, FALSE, FALSE),
   Chip_("B", TRUE, (Modes \cup Files) \ {"bad"}, TRUE, TRUE),
   Chip_("A", TRUE, {"firmwareB", "bootLog", "bootSvcRsp"}, TRUE, TRUE)}

Send_(mode, file) == [mode |-> mode, file |-> file]

MCSends ==
  {Send_("firmware", "app"), Send_("firmware", "fw"), Send_("firmwareB", "fw"),
   Send_("firmware", "big"), Send_("ownerBlock", "block"),
   Send_("bootSvcReq", "msg"), Send_("bootSvcReq", "bad")}

MCHoles == {Send_("firmwareB", "holes")}

\* Over USB, a host that stops within the data of a block, or before it reads
\* the status of an upload, is another question.
MCStops ==
  ({"usb", "spi"} \X HostPcs) \ {<< "usb", "data" >>, << "usb", "uploadStatus" >>}
MCStopsInData == {<< "usb", "data" >>}
=============================================================================
