---- MODULE PureFunctions ----
(***************************************************************************)
(* The functions of the service that keep no state, each on every input of *)
(* a small world: the planners of tiering (Coverage) and the parser        *)
(* (Parsing).  A behaviour builds an input of one of them and evaluates.   *)
(***************************************************************************)
EXTENDS Coverage, Parsing

PureInit == CoverageInit /\ ParsingInit

PureNext ==
    \/ text = <<>> /\ sent = <<>> /\ CoverageNext /\ UNCHANGED parsingVars
    \/ objects = <<>> /\ verdict = <<>> /\ ParsingNext /\ UNCHANGED coverageVars

PureSpec == PureInit /\ [][PureNext]_<<coverageVars, parsingVars>>
====
