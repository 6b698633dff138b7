---------------------------- MODULE MCRomExtBoot ----------------------------
(***************************************************************************)
(* Requests and chip configurations for model checking RomExtBoot.         *)
(***************************************************************************)
EXTENDS RomExtBoot

Next_(primary, next) == [type |-> "next", primary |-> primary, next |-> next]

MCRequests ==
  {Next_(p, n) : p \in Slots \cup {"unspecified"}, n \in {"B", "unspecified"}}
    \cup {Next_("bad", "A"), Next_("A", "bad")}
    \cup [type : {"minSec"}, version : Versions]
    \cup [type : {"rescue"}, skip : BOOLEAN]
    \cup {[type |-> "corrupt"]}

\* The rescue configurations of a chip that keeps its reset reasons, and one
\* chip that does not.
MCSetups ==
  [timeout : BOOLEAN, onFail : BOOLEAN, preserve : {TRUE}]
    \cup {[timeout |-> TRUE, onFail |-> TRUE, preserve |-> FALSE]}

=============================================================================
