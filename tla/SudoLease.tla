------------------------------ MODULE SudoLease ------------------------------
(***************************************************************************)
(* withSudoCredentialLease (backend.go): one authentication, a goroutine   *)
(* that refreshes sudo's credential while the action runs, and commands    *)
(* that may not prompt.  Time is counted from the last use of the          *)
(* credential; sudo forgets it after Timeout.                              *)
(***************************************************************************)
EXTENDS Naturals

CONSTANTS Interval,   \* between two refreshes
          Lag,        \* how late the scheduler may run a due refresh
          Timeout,    \* sudo's timestamp_timeout
          MaxPhases,  \* bound on privileged commands in one action
          MaxShocks   \* bound on suspends and revocations

VARIABLES isRoot,     \* does the program run as root?
          main,       \* where withSudoCredentialLease stands
          refresher,  \* the goroutine: "none", "waiting", "refreshing", "done"
          stop,       \* is the stop channel closed?
          noninteractive, \* sudoNonInteractive
          age,        \* time since the credential was used; Timeout: expired
          due,        \* time since the ticker last fired
          phases,     \* privileged commands started by this action
          prompts,    \* password prompts of this lease
          shocks      \* suspends and revocations so far

leaseVars == <<isRoot, main, refresher, stop, noninteractive, age, due, phases, prompts, shocks>>
timeVars == <<age, due, shocks>>

ASSUME TimesAssumption ==
  /\ Interval \in Nat \ {0} /\ Lag \in Nat /\ Timeout \in Nat /\ Interval + Lag < Timeout
  /\ MaxPhases \in Nat \ {0} /\ MaxShocks \in Nat

LeaseInit ==
  /\ isRoot \in BOOLEAN
  /\ main = "idle"
  /\ refresher = "none"
  /\ stop = FALSE
  /\ noninteractive = FALSE
  /\ age = Timeout
  /\ due = 0
  /\ phases = 0
  /\ prompts = 0
  /\ shocks = 0

Valid == age < Timeout

-----------------------------------------------------------------------------
(* Time, and what happens to the credential behind the program's back.     *)

\* A due refresh is run within Lag, and a started one ends within it.
TimePasses ==
  /\ refresher \in {"waiting", "refreshing"} => due < Interval + Lag
  /\ age' = IF age < Timeout THEN age + 1 ELSE age
  /\ due' = IF refresher \in {"waiting", "refreshing"} THEN due + 1 ELSE 0
  /\ UNCHANGED <<isRoot, main, refresher, stop, noninteractive, phases, prompts, shocks>>

\* The machine sleeps, or somebody runs sudo -k.
Shock ==
  /\ shocks < MaxShocks
  /\ shocks' = shocks + 1
  /\ age' = Timeout
  /\ UNCHANGED <<isRoot, main, refresher, stop, noninteractive, due, phases, prompts>>

-----------------------------------------------------------------------------
(* The goroutine.                                                          *)

\* select may take either channel when both are ready.
StartRefresh ==
  /\ refresher = "waiting" /\ due >= Interval
  /\ refresher' = "refreshing"
  /\ UNCHANGED <<isRoot, main, stop, noninteractive, phases, prompts, timeVars>>

\* Broken variant: a refused refresh returns without closing done.
RefreshUnreported ==
  /\ refresher = "refreshing"
  /\ IF Valid THEN /\ age' = 0 /\ due' = 0 /\ refresher' = "waiting"
              ELSE /\ refresher' = "none" /\ UNCHANGED <<age, due>>
  /\ UNCHANGED <<isRoot, main, stop, noninteractive, phases, prompts, shocks>>

\* sudo -n -v: a valid credential is renewed; a refusal ends the goroutine.
Refresh ==
  /\ refresher = "refreshing"
  /\ IF Valid THEN /\ age' = 0 /\ due' = 0 /\ refresher' = "waiting"
              ELSE /\ refresher' = "done" /\ UNCHANGED <<age, due>>
  /\ UNCHANGED <<isRoot, main, stop, noninteractive, phases, prompts, shocks>>

ObeyStop ==
  /\ refresher = "waiting" /\ stop
  /\ refresher' = "done"
  /\ UNCHANGED <<isRoot, main, stop, noninteractive, phases, prompts, timeVars>>

-----------------------------------------------------------------------------
(* withSudoCredentialLease and the commands of its action.                 *)

Goto(label) == main' = label

\* Broken variant: root is asked for a password as well.
BeginAsUser ==
  /\ main = "idle"
  /\ phases' = 0 /\ prompts' = 0
  /\ Goto("authenticate")
  /\ UNCHANGED <<isRoot, refresher, stop, noninteractive, timeVars>>

\* Root needs no lease.  (Leases do not nest: none of the four callers is
\* reached from the action of another, so the flag is down here.)
Begin ==
  /\ main = "idle"
  /\ phases' = 0 /\ prompts' = 0
  /\ Goto(IF isRoot THEN "acting" ELSE "authenticate")
  /\ UNCHANGED <<isRoot, refresher, stop, noninteractive, timeVars>>

\* sudo -v prompts unless the credential is still good; it may be refused.
Authenticate ==
  /\ main = "authenticate"
  /\ \/ age' = 0 /\ Goto("verify")
     \/ UNCHANGED age /\ Goto("idle")
  /\ prompts' = IF Valid THEN prompts ELSE prompts + 1
  /\ UNCHANGED <<isRoot, refresher, stop, noninteractive, due, phases, shocks>>

\* Broken variant: the flag is left to the first privileged command.
LeaseWithoutFlag ==
  /\ main = "verify"
  /\ IF Valid
     THEN /\ age' = 0 /\ due' = 0 /\ refresher' = "waiting" /\ stop' = FALSE
          /\ Goto("acting")
     ELSE /\ Goto("idle") /\ UNCHANGED <<age, due, refresher, stop>>
  /\ UNCHANGED <<isRoot, noninteractive, phases, prompts, shocks>>

\* Broken variant: nothing renews the credential.
LeaseUnrefreshed ==
  /\ main = "verify"
  /\ IF Valid
     THEN /\ age' = 0 /\ due' = 0 /\ refresher' = "done" /\ stop' = FALSE
          /\ noninteractive' = TRUE
          /\ Goto("acting")
     ELSE /\ Goto("idle") /\ UNCHANGED <<age, due, refresher, stop, noninteractive>>
  /\ UNCHANGED <<isRoot, phases, prompts, shocks>>

\* sudo -n -v must work before anything is left unattended.
Lease ==
  /\ main = "verify"
  /\ IF Valid
     THEN /\ age' = 0 /\ due' = 0 /\ refresher' = "waiting" /\ stop' = FALSE
          /\ noninteractive' = TRUE
          /\ Goto("acting")
     ELSE /\ Goto("idle") /\ UNCHANGED <<age, due, refresher, stop, noninteractive>>
  /\ UNCHANGED <<isRoot, phases, prompts, shocks>>

\* Backend.command: sudo, with -n in a lease, or nothing at all for root.  An
\* expired credential makes sudo -n fail at once and sudo prompt.
Phase ==
  /\ main = "acting" /\ phases < MaxPhases
  /\ phases' = phases + 1
  /\ IF isRoot THEN UNCHANGED <<age, prompts, main>>
     ELSE IF Valid THEN age' = 0 /\ UNCHANGED <<prompts, main>>
     ELSE IF noninteractive THEN Goto("failing") /\ UNCHANGED <<age, prompts>>
     ELSE age' = 0 /\ prompts' = prompts + 1 /\ UNCHANGED main
  /\ UNCHANGED <<isRoot, refresher, stop, noninteractive, due, shocks>>

\* The action returns, with an error or without: close(stop).
Return ==
  /\ main \in {"acting", "failing"}
  /\ IF isRoot THEN Goto("idle") /\ UNCHANGED stop ELSE Goto("stopping") /\ stop' = TRUE
  /\ UNCHANGED <<isRoot, refresher, noninteractive, phases, prompts, timeVars>>

\* <-done, and only then the flag
Release ==
  /\ main = "stopping" /\ refresher = "done"
  /\ noninteractive' = FALSE
  /\ Goto("idle")
  /\ UNCHANGED <<isRoot, refresher, stop, phases, prompts, timeVars>>

-----------------------------------------------------------------------------

Goroutine == StartRefresh \/ Refresh \/ ObeyStop
Main == Authenticate \/ Lease \/ Return \/ Release
LeaseNext == TimePasses \/ Shock \/ Begin \/ Phase \/ Goroutine \/ Main

LeaseSpec == LeaseInit /\ [][LeaseNext]_leaseVars
\* sudo -n never waits for anybody, and select, which picks a ready channel at
\* random, is fair to the closed one.  A user may leave the password prompt of
\* sudo -v, or a passphrase prompt of the action, unanswered: no fairness there.
FairSpec == LeaseSpec /\ WF_leaseVars(Release) /\ WF_leaseVars(Refresh) /\ SF_leaseVars(ObeyStop)

-----------------------------------------------------------------------------
(* Properties.                                                             *)

\* The types; root has no goroutine and is never prompted.
TypeOK ==
  /\ isRoot \in BOOLEAN /\ stop \in BOOLEAN /\ noninteractive \in BOOLEAN
  /\ main \in {"idle", "authenticate", "verify", "acting", "failing", "stopping"}
  /\ refresher \in {"none", "waiting", "refreshing", "done"}
  /\ age \in 0 .. Timeout /\ due \in 0 .. Interval + Lag
  /\ phases \in 0 .. MaxPhases /\ prompts \in 0 .. 1 + MaxPhases /\ shocks \in 0 .. MaxShocks
  /\ isRoot => refresher = "none" /\ prompts = 0

\* README.md: "later phases cannot prompt again": one lease prompts once, and
\* never while it is unattended, even when the credential is gone.
OnePrompt == prompts <= 1

\* While the goroutine runs and nothing takes the credential away, it never
\* expires: a privileged phase fails only after a shock.
CredentialKept == shocks = 0 /\ main \in {"acting", "failing"} /\ ~isRoot => Valid

\* Once its action has returned a lease ends: the deferred wait for the goroutine,
\* which may be waiting, refreshing or gone after a refusal, returns.
LeaseEnds == main = "stopping" ~> main = "idle"
=============================================================================
