-------------------------- MODULE MCPlanExecution --------------------------
(* Instances of PlanExecution for TLC. *)
EXTENDS PlanExecution

\* The reviewed disk, one that reports something else, and an internal disk
\* that reports the same identity but is not an eligible target.
MCDisks == {"reviewed", "other", "internal"}
MCIdent == [d \in MCDisks |-> IF d = "other" THEN "idB" ELSE "idA"]
MCEligible == {"reviewed", "other"}
MCIdentities == {"idA", "idB"}

Base == [profile |-> "debian", role |-> "primary", groups |-> "none", groupsFit |-> TRUE,
         encrypted |-> FALSE, prep |-> TRUE, overlay |-> FALSE, live |-> TRUE,
         local |-> TRUE, inputsOk |-> TRUE]

DebianEncrypted == [Base EXCEPT !.encrypted = TRUE]
DebianLegacy    == [Base EXCEPT !.prep = FALSE, !.encrypted = TRUE, !.groups = "unset"]
DebianRemote    == [Base EXCEPT !.local = FALSE, !.groups = "some"]
Netinst         == [Base EXCEPT !.role = "netinst", !.groups = "unset", !.live = FALSE]
Netboot         == [Netinst EXCEPT !.role = "netboot", !.local = FALSE]
NetinstLegacy   == [Netinst EXCEPT !.prep = FALSE]
Ubuntu          == [Base EXCEPT !.profile = "ubuntu"]
UbuntuTools     == [Ubuntu EXCEPT !.groups = "some"]
UbuntuEncrypted == [Ubuntu EXCEPT !.encrypted = TRUE]
UbuntuLegacy    == [UbuntuEncrypted EXCEPT !.prep = FALSE]
Purple          == [Base EXCEPT !.profile = "purple", !.live = FALSE]
Tails           == [Base EXCEPT !.profile = "tails", !.groups = "unset"]
TailsTools      == [Tails EXCEPT !.groups = "some", !.groupsFit = FALSE]
TailsOverlay    == [Tails EXCEPT !.overlay = TRUE]
WrongGroups     == [Base EXCEPT !.groups = "some", !.groupsFit = FALSE]
BadInputs       == [Base EXCEPT !.inputsOk = FALSE]

Plan(mode, items) == [mode |-> mode, items |-> items, device |-> "idA", samePath |-> TRUE]

Singles == {Base, DebianEncrypted, DebianLegacy, DebianRemote, Netinst, Netboot, NetinstLegacy,
            Ubuntu, UbuntuTools, UbuntuEncrypted, UbuntuLegacy, Purple, Tails, TailsTools,
            TailsOverlay, WrongGroups, BadInputs}
SinglePlans ==
  {Plan(m, <<it>>) : m \in {"direct", "managed"}, it \in Singles}
    \cup {[Plan("managed", <<Base>>) EXCEPT !.device = NoIdentity],
          [Plan("managed", <<Base>>) EXCEPT !.samePath = FALSE]}

MultiPlans ==
  {Plan("multi_os", <<Tails, DebianEncrypted>>), Plan("multi_os", <<Netinst, UbuntuTools>>),
   Plan("multi_os", <<DebianRemote, TailsTools>>), Plan("multi_os", <<Netboot, BadInputs>>),
   Plan("multi_os", <<Ubuntu, Netinst>>)}

AllPlans == SinglePlans \cup MultiPlans
=============================================================================
