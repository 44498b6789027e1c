---------------------------- MODULE SessionProofs ---------------------------
(***************************************************************************)
(* The program's sessions: the sudo lease of a running action, for every   *)
(* interval, lag and timeout with Interval + Lag < Timeout, and the plans  *)
(* that a session saves, runs and edits.                                   *)
(***************************************************************************)
EXTENDS SudoLease, PlanStore, TLAPS

(* The lease. *)

Refreshing == refresher \in {"waiting", "refreshing"}
Working == main \in {"acting", "failing"} /\ ~isRoot

\* The goroutine lives inside its lease, and root has neither.
Scoped ==
  /\ Refreshing => main \in {"acting", "failing", "stopping"}
  /\ isRoot => main \in {"idle", "acting"}

\* A command can prompt only before the lease, and nothing has prompted then.
Prompting ==
  /\ Working => noninteractive
  /\ main = "authenticate" => prompts = 0
  /\ prompts <= 1

\* While the action works nobody has stopped the goroutine, and the credential
\* is never older than the last tick of its clock.
Refreshed ==
  /\ Working => ~stop
  /\ Working /\ shocks = 0 => Refreshing /\ age <= due

LeaseInv == TypeOK /\ Scoped /\ Prompting /\ Refreshed

-----------------------------------------------------------------------------

\* No lease is held at first.
LEMMA LeaseStarts == LeaseInit => LeaseInv
<1> SUFFICES ASSUME LeaseInit PROVE LeaseInv
  OBVIOUS
<1> USE TimesAssumption DEF LeaseInit
<1>1. stop \in BOOLEAN /\ noninteractive \in BOOLEAN
  OBVIOUS
<1>2. ~Working /\ ~Refreshing
  BY SMT DEF Working, Refreshing
<1>3. TypeOK
  BY <1>1, SMT DEF TypeOK
<1> QED
  BY <1>2, <1>3, SMT DEF LeaseInv, Scoped, Prompting, Refreshed

\* Time passes no further than the refresh is allowed to be late.
LEMMA WorldSteps ==
  ASSUME LeaseInv, TimePasses \/ Shock
  PROVE  LeaseInv'
<1> USE TimesAssumption DEF LeaseInv, TypeOK, Scoped, Prompting, Refreshed, Refreshing, Working
<1>1. CASE TimePasses
  BY <1>1, SMT DEF TimePasses
<1>2. CASE Shock
  BY <1>2, SMT DEF Shock
<1> QED
  BY <1>1, <1>2

\* The steps of the refreshing goroutine.
LEMMA GoroutineSteps ==
  ASSUME LeaseInv, Goroutine
  PROVE  LeaseInv'
<1> USE TimesAssumption DEF LeaseInv, TypeOK, Scoped, Prompting, Refreshed, Refreshing, Working
<1>1. CASE StartRefresh
  BY <1>1, SMT DEF StartRefresh, timeVars
\* Without a shock the credential is younger than Timeout, and it is renewed.
<1>2. CASE Refresh
  BY <1>2, SMT DEF Refresh, Valid
<1>3. CASE ObeyStop
  BY <1>3, SMT DEF ObeyStop, timeVars
<1> QED
  BY <1>1, <1>2, <1>3 DEF Goroutine

\* The steps of the action that holds the lease.
LEMMA LeaseSteps ==
  ASSUME LeaseInv, Begin \/ Phase \/ Main
  PROVE  LeaseInv'
<1> USE TimesAssumption DEF LeaseInv, TypeOK, Scoped, Prompting, Refreshed, Refreshing, Working
<1>1. CASE Begin
  BY <1>1, SMT DEF Begin, Goto, timeVars
<1>2. CASE Phase
  BY <1>2, SMT DEF Phase, Goto, Valid
<1>3. CASE Authenticate
  BY <1>3, SMT DEF Authenticate, Goto, Valid
<1>4. CASE Lease
  <2>1. CASE Valid
    <3>1. ~stop' /\ noninteractive' /\ stop' \in BOOLEAN /\ noninteractive' \in BOOLEAN
      BY <1>4, <2>1 DEF Lease
    <3>2. /\ main' = "acting" /\ age' = 0 /\ due' = 0 /\ refresher' = "waiting"
          /\ main = "verify" /\ UNCHANGED <<isRoot, phases, prompts, shocks>>
      BY <1>4, <2>1 DEF Lease, Goto
    <3> QED
      BY <3>1, <3>2, SMT
  <2>2. CASE ~Valid
    BY <1>4, <2>2, SMT DEF Lease, Goto
  <2> QED
    BY <2>1, <2>2
<1>5. CASE Return
  <2>1. CASE isRoot
    BY <1>5, <2>1, SMT DEF Return, Goto, timeVars
  <2>2. CASE ~isRoot
    <3>1. stop' \in BOOLEAN /\ main' = "stopping"
      BY <1>5, <2>2 DEF Return, Goto
    <3>2. UNCHANGED <<isRoot, refresher, noninteractive, phases, prompts, age, due, shocks>>
      BY <1>5 DEF Return, timeVars
    <3> QED
      BY <2>2, <3>1, <3>2, SMT
  <2> QED
    BY <2>1, <2>2
<1>6. CASE Release
  <2>1. noninteractive' \in BOOLEAN /\ main' = "idle" /\ refresher = "done"
    BY <1>6 DEF Release, Goto
  <2>2. UNCHANGED <<isRoot, refresher, stop, phases, prompts, age, due, shocks>>
    BY <1>6 DEF Release, timeVars
  <2> QED
    BY <2>1, <2>2, SMT
<1> QED
  BY <1>1, <1>2, <1>3, <1>4, <1>5, <1>6 DEF Main

\* The lease's inductive invariant.
LEMMA LeaseInvariance == LeaseSpec => []LeaseInv
<1>1. LeaseInit => LeaseInv
  BY LeaseStarts
<1>2. LeaseInv /\ [LeaseNext]_leaseVars => LeaseInv'
  <2> SUFFICES ASSUME LeaseInv, [LeaseNext]_leaseVars PROVE LeaseInv'
    OBVIOUS
  <2>1. CASE LeaseNext
    BY <2>1, WorldSteps, GoroutineSteps, LeaseSteps DEF LeaseNext
  <2>2. CASE UNCHANGED leaseVars
    BY <2>2 DEF leaseVars, LeaseInv, TypeOK, Scoped, Prompting, Refreshed, Refreshing, Working
  <2> QED
    BY <2>1, <2>2
<1> QED
  BY <1>1, <1>2, PTL DEF LeaseSpec

\* Every state is well typed, and root has neither a goroutine nor a prompt.
THEOREM LeaseTypes == LeaseSpec => []TypeOK
<1>1. LeaseInv => TypeOK
  BY DEF LeaseInv
<1> QED
  BY <1>1, LeaseInvariance, PTL

\* One authentication per lease: no command of the action prompts, even when
\* the credential is lost while it runs.
THEOREM PromptsOnce == LeaseSpec => []OnePrompt
<1>1. LeaseInv => OnePrompt
  BY DEF LeaseInv, Prompting, OnePrompt
<1> QED
  BY <1>1, LeaseInvariance, PTL

\* A refresh that is late by no more than Lag is enough to keep the credential
\* valid for a privileged command at any moment of the action.
THEOREM CredentialStays == LeaseSpec => []CredentialKept
<1>1. LeaseInv => CredentialKept
  BY TimesAssumption, SMT
     DEF LeaseInv, TypeOK, Refreshed, Refreshing, Working, CredentialKept, Valid
<1> QED
  BY <1>1, LeaseInvariance, PTL

-----------------------------------------------------------------------------
(* The saved plans survive whatever the sessions do, as many as there are. *)

Entries == [state : {"absent", "whole", "torn"}, plan : Plans \cup {NoPlan}, executed : BOOLEAN]
Copies == [pc : {"menu", "list", "save", "fill", "saved", "execute"},
           purpose : {"none", "create", "run", "edit"}, id : Ids \cup {NoId},
           plan : Plans \cup {NoPlan}, executed : BOOLEAN]

StoreTyped ==
  /\ now \in 0 .. MaxTime /\ taken \in [Ids -> Nat] /\ stale \in [Sessions -> BOOLEAN]
  /\ store \in [Ids -> Entries] /\ session \in [Sessions -> Copies]

\* Only the copy by sudo ever truncates a file, and no deleted file is executed.
Filed ==
  \A i \in Ids : /\ store[i].state = "torn" => i \in copied
                 /\ store[i].executed => i \in Present

\* A session has a copy exactly when it is not at the menu, and every id in use
\* was given out.
Holding ==
  /\ \A s \in Sessions : IF At(s, "menu") THEN session[s] = Menu ELSE session[s].id \in Ids
  /\ \A i \in Ids : taken[i] = 0 => i \notin Present /\ \A s \in Sessions : session[s].id # i

\* An id that is given out once belongs to one session until the plan is saved.
Alone(s) ==
  At(s, "list") =>
    /\ Creating(s) /\ ~session[s].executed
    /\ taken[session[s].id] < 2 =>
         /\ session[s].id \notin Present
         /\ \A t \in Sessions : t # s => session[t].id # session[s].id

\* What a current copy says of its file: c is the copy.
Agrees(c, files) ==
  /\ files[c.id].state = "absent" => c.purpose = "create" /\ c.pc = "save"
  /\ files[c.id].executed => c.executed
  /\ c.purpose = "create" /\ c.pc = "save" /\ files[c.id].state # "absent" => files[c.id].plan = c.plan

Fresh(s) ==
  session[s].pc \in {"save", "fill", "saved", "execute"} /\ ~stale[s] /\ taken[session[s].id] < 2 =>
    Agrees(session[s], store)

StoreInv == StoreTyped /\ Filed /\ Holding /\ \A s \in Sessions : Alone(s) /\ Fresh(s)

-----------------------------------------------------------------------------

\* A store without files is in order.
LEMMA StoreStarts == Init => StoreInv
<1> SUFFICES ASSUME Init PROVE StoreInv
  OBVIOUS
<1> USE PlansAssumption DEF Init
<1>1. StoreTyped
  BY SMT DEF StoreTyped, Entries, Copies, NoEntry, Menu
<1>2. Present = {}
  BY SMT DEF Present, NoEntry
<1>3. \A i \in Ids : i # NoId
  BY SMT DEF Ids, NoId
<1>4. Filed /\ Holding
  BY <1>2, <1>3, SMT DEF Filed, Holding, At, Menu, NoEntry
<1>5. \A s \in Sessions : session[s].pc = "menu"
  BY SMT DEF Menu
<1> QED
  BY <1>1, <1>4, <1>5 DEF StoreInv, Alone, Fresh, At

\* Changes of one field keep a copy or a file what it is.
LEMMA CopyFields ==
  ASSUME NEW c \in Copies
  PROVE  /\ \A l \in {"menu", "list", "save", "fill", "saved", "execute"} :
              [c EXCEPT !.pc = l] \in Copies
         /\ \A p \in Plans : [c EXCEPT !.plan = p] \in Copies
         /\ \A i \in Ids, x \in BOOLEAN :
              [c EXCEPT !.pc = "save", !.id = i, !.executed = x] \in Copies
<1> USE DEF Copies
<1>1. \A l \in {"menu", "list", "save", "fill", "saved", "execute"} : [c EXCEPT !.pc = l] \in Copies
  BY SMT
<1>2. \A p \in Plans : [c EXCEPT !.plan = p] \in Copies
  BY SMT
<1>3. ASSUME NEW i \in Ids, NEW x \in BOOLEAN
      PROVE  [c EXCEPT !.pc = "save", !.id = i, !.executed = x] \in Copies
  <2>1. [c EXCEPT !.pc = "save"] \in Copies
    BY <1>1
  <2>2. [[c EXCEPT !.pc = "save"] EXCEPT !.id = i] \in Copies
    BY <2>1, Zenon
  <2>3. [[[c EXCEPT !.pc = "save"] EXCEPT !.id = i] EXCEPT !.executed = x] \in Copies
    BY <2>2, Zenon
  <2> QED
    BY <2>3
<1> QED
  BY <1>1, <1>2, <1>3

\* What a session writes has its type.
LEMMA WrittenFiles ==
  ASSUME StoreTyped, NEW s \in Sessions, session[s].id \in Ids
  PROVE  /\ Contents(s) \in Entries /\ [Contents(s) EXCEPT !.executed = TRUE] \in Entries
         /\ [store[session[s].id] EXCEPT !.state = "torn"] \in Entries
         /\ NoEntry \in Entries /\ Menu \in Copies
<1>1. session[s] \in Copies /\ store[session[s].id] \in Entries
  BY DEF StoreTyped
<1>2. Contents(s) \in Entries /\ [Contents(s) EXCEPT !.executed = TRUE] \in Entries
  <2>1. session[s].plan \in Plans \cup {NoPlan} /\ session[s].executed \in BOOLEAN
    BY <1>1 DEF Copies
  <2> QED
    BY <2>1 DEF Contents, Entries
<1>3. NoEntry \in Entries /\ Menu \in Copies
  BY SMT DEF NoEntry, Menu, Entries, Copies
<1>4. [store[session[s].id] EXCEPT !.state = "torn"] \in Entries
  BY <1>1, SMT DEF Entries
<1> QED
  BY <1>2, <1>3, <1>4

\* A step that leaves the files alone: session s goes back to the menu, or holds
\* a copy of its own file or of a listed one that agrees with the file.
LEMMA ReadingSteps ==
  ASSUME StoreInv, NEW s \in Sessions, NEW c \in Copies, Becomes(s, c),
         UNCHANGED <<now, store, taken, copied>>, stale' \in [Sessions -> BOOLEAN],
         \A t \in Sessions : t # s => stale'[t] = stale[t],
         \/ c = Menu
         \/ /\ c.pc \notin {"menu", "list"} /\ c.id \in Ids
            /\ c.id \in Present \/ c.id = session[s].id
            /\ ~stale'[s] /\ taken[c.id] < 2 => Agrees(c, store)
  PROVE  StoreInv'
<1>1. StoreTyped /\ Filed /\ Holding
  BY DEF StoreInv
<1>2. /\ session' \in [Sessions -> Copies] /\ session'[s] = c
      /\ \A t \in Sessions : t # s => session'[t] = session[t]
  BY <1>1 DEF StoreTyped, Becomes
<1>3. StoreTyped'
  BY <1>1, <1>2 DEF StoreTyped
<1>4. Present' = Present
  BY DEF Present
<1>5. Filed'
  BY <1>1, <1>4 DEF Filed
<1>6. Menu.pc = "menu" /\ Menu.id = NoId /\ NoId \notin Ids
  BY PlansAssumption, SMT DEF Menu, NoId, Ids
<1>7. Holding'
  <2>1. \A t \in Sessions : IF At(t, "menu")' THEN session'[t] = Menu ELSE session'[t].id \in Ids
    BY <1>1, <1>2, <1>6 DEF Holding, At
  <2>2. ASSUME NEW i \in Ids, taken'[i] = 0 PROVE i \notin Present' /\ \A t \in Sessions : session'[t].id # i
    BY <1>1, <1>2, <1>4, <1>6, <2>2 DEF Holding
  <2> QED
    BY <2>1, <2>2 DEF Holding
<1>8. ASSUME NEW t \in Sessions PROVE Alone(t)' /\ Fresh(t)'
  <2>1. Alone(t) /\ Fresh(t)
    BY DEF StoreInv
  <2>2. CASE t = s
    BY <1>2, <1>6, <2>2 DEF Alone, Fresh, At
  <2>3. CASE t # s
    <3>1. Fresh(t)'
      BY <1>2, <2>1, <2>3 DEF Fresh
    <3>2. ASSUME At(t, "list"), taken[session[t].id] < 2 PROVE c.id # session[t].id
      <4>1. session[t].id \in Ids
        BY <1>1, <3>2, SMT DEF Holding, At
      <4>2. session[t].id \notin Present /\ session[s].id # session[t].id
        BY <2>1, <2>3, <3>2 DEF Alone
      <4> QED
        BY <1>6, <4>1, <4>2
    <3>3. ASSUME At(t, "list"), taken[session[t].id] < 2, NEW u \in Sessions, u # t
          PROVE  session'[u].id # session[t].id
      BY <1>2, <2>1, <3>2, <3>3 DEF Alone
    <3> QED
      BY <1>2, <1>4, <2>1, <2>3, <3>1, <3>3 DEF Alone, At, Creating
  <2> QED
    BY <2>2, <2>3
<1> QED
  BY <1>3, <1>5, <1>7, <1>8 DEF StoreInv

\* A step that writes the file of session s: whoever else holds a copy of it holds
\* a stale one.
LEMMA WritingSteps ==
  ASSUME StoreInv, NEW s \in Sessions, ~At(s, "menu"), ~At(s, "list"),
         NEW e \in Entries, Write(s, e), e.state # "absent",
         NEW c \in Copies, Becomes(s, c), UNCHANGED <<now, taken>>,
         copied \subseteq copied', e.state = "torn" => session[s].id \in copied',
         \/ c = Menu
         \/ /\ c.pc \in {"fill", "saved"} /\ c.id = session[s].id
            /\ ~stale[s] /\ taken[c.id] < 2 => (e.executed => c.executed)
  PROVE  StoreInv'
<1> DEFINE i == session[s].id
<1>1. StoreTyped /\ Filed /\ Holding /\ i \in Ids
  BY DEF StoreInv, Holding
<1>2. /\ session' \in [Sessions -> Copies] /\ session'[s] = c
      /\ \A t \in Sessions : t # s => session'[t] = session[t]
  BY <1>1 DEF StoreTyped, Becomes
<1>3. store' \in [Ids -> Entries] /\ \A j \in Ids : store'[j] = IF j = i THEN e ELSE store[j]
  BY <1>1 DEF StoreTyped, Write
<1>4. /\ stale' \in [Sessions -> BOOLEAN]
      /\ \A t \in Sessions : stale'[t] = (stale[t] \/ (t # s /\ session[t].id = i))
  BY <1>1 DEF StoreTyped, Write, Overtake
<1>5. StoreTyped'
  BY <1>1, <1>2, <1>3, <1>4 DEF StoreTyped
<1>6. \A j \in Ids : j \in Present' <=> (j \in Present \/ j = i)
  BY <1>3 DEF Present
<1>7. Filed'
  BY <1>1, <1>3, <1>6 DEF Filed
<1>8. Menu.pc = "menu" /\ Menu.id = NoId /\ NoId \notin Ids
  BY PlansAssumption, SMT DEF Menu, NoId, Ids
<1>9. Holding'
  <2>1. \A t \in Sessions : IF At(t, "menu")' THEN session'[t] = Menu ELSE session'[t].id \in Ids
    BY <1>1, <1>2, <1>8 DEF Holding, At
  <2>2. ASSUME NEW j \in Ids, taken'[j] = 0 PROVE j \notin Present' /\ \A t \in Sessions : session'[t].id # j
    BY <1>1, <1>2, <1>6, <1>8, <2>2 DEF Holding
  <2> QED
    BY <2>1, <2>2 DEF Holding
<1>10. ASSUME NEW t \in Sessions PROVE Alone(t)' /\ Fresh(t)'
  <2>1. Alone(t) /\ Fresh(t)
    BY DEF StoreInv
  <2>2. CASE t = s
    <3>1. Alone(t)'
      BY <1>2, <1>8, <2>2 DEF Alone, At
    <3>2. CASE c = Menu
      BY <1>2, <1>8, <2>2, <3>1, <3>2 DEF Fresh
    <3>3. CASE c # Menu
      <4>1. c.pc \in {"fill", "saved"} /\ c.id = i /\ store'[i] = e
        BY <1>1, <1>3, <3>3
      <4>2. ~stale'[s] /\ taken[i] < 2 => Agrees(c, store')
        BY <1>4, <3>3, <4>1 DEF Agrees
      <4> QED
        BY <1>2, <2>2, <3>1, <4>1, <4>2 DEF Fresh
    <3> QED
      BY <3>2, <3>3
  <2>3. CASE t # s
    <3>1. session'[t] = session[t] /\ Creating(t)' = Creating(t)
      BY <1>2, <2>3 DEF Creating
    <3>2. Alone(t)'
      <4> SUFFICES ASSUME At(t, "list") PROVE Alone(t)'
        BY <3>1 DEF Alone, At
      <4>1. session[t].id \in Ids
        BY <1>1, SMT DEF Holding, At
      <4>2. ASSUME taken[session[t].id] < 2, NEW u \in Sessions, u # t
            PROVE  session[t].id \notin Present' /\ session'[u].id # session[t].id
        BY <1>2, <1>6, <1>8, <2>1, <2>3, <4>1, <4>2 DEF Alone
      <4> QED
        BY <2>1, <2>3, <3>1, <4>2 DEF Alone, At, Creating
    <3>3. Fresh(t)'
      <4> SUFFICES ASSUME session[t].pc \in {"save", "fill", "saved", "execute"}, ~stale'[t],
                          taken[session[t].id] < 2
                   PROVE  Agrees(session[t], store')
        BY <3>1 DEF Fresh
      <4>1. session[t].id \in Ids /\ session[t].id # i /\ ~stale[t]
        BY <1>1, <1>4, <2>3, SMT DEF Holding, At
      <4>2. store'[session[t].id] = store[session[t].id]
        BY <1>3, <4>1
      <4> QED
        BY <2>1, <4>1, <4>2 DEF Fresh, Agrees
    <3> QED
      BY <3>2, <3>3
  <2> QED
    BY <2>2, <2>3
<1> QED
  BY <1>5, <1>7, <1>9, <1>10 DEF StoreInv

\* A file is deleted: whoever holds a copy of it holds a stale one.
LEMMA DeletingSteps ==
  ASSUME StoreInv, NEW s \in Sessions, Delete(s)
  PROVE  StoreInv'
<1>1. StoreTyped /\ Filed /\ Holding
  BY DEF StoreInv
<1>2. PICK i \in Present : store' = [store EXCEPT ![i] = NoEntry] /\ Overtake(s, i)
  BY DEF Delete
<1>3. i \in Ids /\ At(s, "menu") /\ UNCHANGED <<now, session, taken, copied>>
  BY DEF Present, Delete
<1>4. NoEntry \in Entries /\ NoEntry.state = "absent" /\ ~NoEntry.executed
  BY SMT DEF NoEntry, Entries
<1>5. store' \in [Ids -> Entries] /\ \A j \in Ids : store'[j] = IF j = i THEN NoEntry ELSE store[j]
  BY <1>1, <1>2, <1>4 DEF StoreTyped
<1>6. /\ stale' \in [Sessions -> BOOLEAN]
      /\ \A t \in Sessions : stale'[t] = (stale[t] \/ (t # s /\ session[t].id = i))
  BY <1>1, <1>2 DEF StoreTyped, Overtake
<1>7. \A j \in Ids : j \in Present' <=> (j \in Present /\ j # i)
  BY <1>4, <1>5 DEF Present
<1>8. StoreTyped' /\ Filed'
  BY <1>1, <1>3, <1>4, <1>5, <1>6, <1>7 DEF StoreTyped, Filed
<1>9. Holding'
  BY <1>1, <1>3, <1>7 DEF Holding, At
<1>10. ASSUME NEW t \in Sessions PROVE Alone(t)' /\ Fresh(t)'
  <2>1. Alone(t) /\ Fresh(t)
    BY DEF StoreInv
  <2>2. Alone(t)'
    <3> SUFFICES ASSUME At(t, "list") PROVE Alone(t)'
      BY <1>3 DEF Alone, At
    <3>1. session[t].id \in Ids
      BY <1>1, SMT DEF Holding, At
    <3> QED
      BY <1>3, <1>7, <2>1, <3>1 DEF Alone, At, Creating
  <2>3. Fresh(t)'
    <3> SUFFICES ASSUME session[t].pc \in {"save", "fill", "saved", "execute"}, ~stale'[t],
                        taken[session[t].id] < 2
                 PROVE  Agrees(session[t], store')
      BY <1>3 DEF Fresh
    <3>1. t # s
      BY <1>3, SMT DEF At
    <3>2. session[t].id \in Ids /\ session[t].id # i /\ ~stale[t]
      BY <1>1, <1>6, <3>1, SMT DEF Holding, At
    <3>3. store'[session[t].id] = store[session[t].id]
      BY <1>5, <3>2
    <3> QED
      BY <2>1, <3>2, <3>3 DEF Fresh, Agrees
  <2> QED
    BY <2>2, <2>3
<1> QED
  BY <1>8, <1>9, <1>10 DEF StoreInv

\* A new plan gets the id of the second: a first time, nobody has it.
LEMMA CreatingSteps ==
  ASSUME StoreInv, NEW s \in Sessions, BeginCreate(s)
  PROVE  StoreInv'
<1>1. StoreTyped /\ Filed /\ Holding
  BY DEF StoreInv
<1>2. PICK kind \in Kinds, p \in Plans :
        /\ Becomes(s, [pc |-> "list", purpose |-> "create", id |-> <<kind, now>>, plan |-> p,
                       executed |-> FALSE])
        /\ taken' = [taken EXCEPT ![<<kind, now>>] = @ + 1]
  BY DEF BeginCreate
<1> DEFINE i == <<kind, now>>
           c == [pc |-> "list", purpose |-> "create", id |-> i, plan |-> p, executed |-> FALSE]
<1>3. i \in Ids
  BY <1>1, SMT DEF StoreTyped, Ids
<1>4. /\ c \in Copies /\ c.pc = "list" /\ c.purpose = "create" /\ c.id = i /\ c.executed = FALSE
  BY <1>3, SMT DEF Copies
<1>5. Becomes(s, c) /\ taken' = [taken EXCEPT ![i] = @ + 1]
  BY <1>2
<1>6. UNCHANGED <<now, store, stale, copied>> /\ At(s, "menu")
  BY DEF BeginCreate
<1> HIDE DEF c, i
<1>7. /\ session' \in [Sessions -> Copies] /\ session'[s] = c
      /\ \A t \in Sessions : t # s => session'[t] = session[t]
  BY <1>1, <1>4, <1>5 DEF StoreTyped, Becomes
<1>8. /\ taken' \in [Ids -> Nat] /\ taken[i] \in Nat
      /\ \A j \in Ids : taken'[j] = IF j = i THEN taken[i] + 1 ELSE taken[j]
  BY <1>1, <1>3, <1>5 DEF StoreTyped
<1>9. Present' = Present
  BY <1>6 DEF Present
<1>10. StoreTyped' /\ Filed'
  BY <1>1, <1>6, <1>7, <1>8, <1>9 DEF StoreTyped, Filed
<1>11. Holding'
  <2>1. \A t \in Sessions : IF At(t, "menu")' THEN session'[t] = Menu ELSE session'[t].id \in Ids
    BY <1>1, <1>3, <1>4, <1>7 DEF Holding, At
  <2>2. ASSUME NEW j \in Ids, taken'[j] = 0
        PROVE  j \notin Present' /\ \A t \in Sessions : session'[t].id # j
    <3>1. j # i /\ taken[j] = 0
      BY <1>8, <2>2
    <3> QED
      BY <1>1, <1>4, <1>7, <1>9, <3>1 DEF Holding
  <2> QED
    BY <2>1, <2>2 DEF Holding
<1>12. ASSUME NEW t \in Sessions PROVE Alone(t)' /\ Fresh(t)'
  <2>1. Alone(t) /\ Fresh(t)
    BY DEF StoreInv
  <2>2. CASE t = s
    <3>1. Fresh(t)'
      BY <1>4, <1>7, <2>2 DEF Fresh
    <3>2. taken'[i] < 2 => i \notin Present' /\ \A u \in Sessions : u # s => session'[u].id # i
      BY <1>1, <1>3, <1>7, <1>8, <1>9 DEF Holding
    <3> QED
      BY <1>4, <1>7, <2>2, <3>1, <3>2 DEF Alone, At, Creating
  <2>3. CASE t # s
    <3>1. session'[t] = session[t]
      BY <1>7, <2>3
    <3>2. ASSUME session[t].pc # "menu", taken'[session[t].id] < 2
          PROVE  taken[session[t].id] < 2 /\ session[t].id # i
      <4>1. session[t].id \in Ids
        BY <1>1, <3>2 DEF Holding, At
      <4> QED
        BY <1>1, <1>3, <1>8, <3>2, <4>1 DEF Holding
    <3>3. Fresh(t)'
      BY <1>6, <2>1, <3>1, <3>2 DEF Fresh
    <3>4. ASSUME At(t, "list"), taken'[session[t].id] < 2
          PROVE  session[t].id \notin Present' /\ \A u \in Sessions : u # t => session'[u].id # session[t].id
      BY <1>4, <1>7, <1>9, <2>1, <3>2, <3>4 DEF Alone, At
    <3> QED
      BY <2>1, <3>1, <3>3, <3>4 DEF Alone, At, Creating
  <2> QED
    BY <2>2, <2>3
<1> QED
  BY <1>10, <1>11, <1>12 DEF StoreInv

\* Every step of a session keeps the invariant.
LEMMA SessionSteps ==
  ASSUME StoreInv, NEW s \in Sessions, Program(s) \/ User(s) \/ Die(s)
  PROVE  StoreInv'
<1> DEFINE c == session[s]
<1>1. StoreTyped /\ Filed /\ Holding /\ Alone(s) /\ Fresh(s)
  BY DEF StoreInv
<1>2. c \in Copies /\ stale \in [Sessions -> BOOLEAN]
  BY <1>1 DEF StoreTyped
<1>3. c.pc # "menu" => c.id \in Ids
  BY <1>1 DEF Holding, At
<1>4. Menu \in Copies
  BY SMT DEF Menu, Copies
<1>5. stale' = [stale EXCEPT ![s] = FALSE] =>
        stale' \in [Sessions -> BOOLEAN] /\ \A t \in Sessions : t # s => stale'[t] = stale[t]
  BY <1>2
<1>6. ASSUME NEW l \in {"save", "fill", "saved", "execute"}
      PROVE  LET d == [c EXCEPT !.pc = l] IN
               /\ d \in Copies /\ d.pc = l
               /\ d.id = c.id /\ d.plan = c.plan /\ d.purpose = c.purpose /\ d.executed = c.executed
  <2> DEFINE d == [c EXCEPT !.pc = l]
  <2>1. d \in Copies
    BY <1>2, CopyFields
  <2>2. d.pc = l /\ d.id = c.id /\ d.plan = c.plan /\ d.purpose = c.purpose /\ d.executed = c.executed
    BY <1>2, SMT DEF Copies
  <2> QED
    BY <2>1, <2>2
<1> HIDE DEF c
\* Where a step only moves on, what the copy says of its file stays true.
<1>7. ASSUME Becomes(s, Menu), UNCHANGED <<now, store, taken, copied, stale>> PROVE StoreInv'
  BY <1>2, <1>4, <1>7, ReadingSteps
<1>8. CASE Reuse(s)
  <2>1. /\ At(s, "list") /\ stale' = [stale EXCEPT ![s] = FALSE]
        /\ UNCHANGED <<now, store, taken, copied>>
    BY <1>8 DEF Reuse, Current
  <2>2. c.purpose = "create" /\ ~c.executed /\ c.id \in Ids /\ (taken[c.id] < 2 => c.id \notin Present)
    BY <1>1, <1>3, <2>1 DEF Alone, At, Creating, c
  <2>3. CASE Becomes(s, Menu)
    BY <1>4, <1>5, <2>1, <2>3, ReadingSteps
  <2>4. CASE Go(s, "save")
    <3> DEFINE d == [c EXCEPT !.pc = "save"]
    <3>1. /\ d \in Copies /\ d.pc = "save" /\ d.id = c.id /\ d.purpose = "create"
          /\ Becomes(s, d)
      BY <1>6, <2>2, <2>4 DEF Go, c
    <3> HIDE DEF d
    <3>2. taken[d.id] < 2 => Agrees(d, store)
      <4>1. c.id \notin Present => store[c.id].state = "absent" /\ ~store[c.id].executed
        BY <1>1, <2>2 DEF Filed, Present
      <4> QED
        BY <2>2, <3>1, <4>1 DEF Agrees
    <3> QED
      BY <1>5, <2>1, <2>2, <3>1, <3>2, ReadingSteps DEF c
  <2>5. ASSUME NEW i \in Present, store[i].plan = c.plan,
               Becomes(s, [c EXCEPT !.pc = "save", !.id = i, !.executed = store[i].executed])
        PROVE  StoreInv'
    <3> DEFINE d == [c EXCEPT !.pc = "save", !.id = i, !.executed = store[i].executed]
    <3>1. i \in Ids /\ store[i].state # "absent" /\ store[i].executed \in BOOLEAN
      BY <1>1 DEF Present, StoreTyped, Entries
    <3>2. /\ d \in Copies /\ d.pc = "save" /\ d.id = i /\ d.plan = c.plan
          /\ d.executed = store[i].executed
      <4>1. d \in Copies
        BY <1>2, <3>1, CopyFields
      <4>2. d.pc = "save" /\ d.id = i /\ d.plan = c.plan /\ d.executed = store[i].executed
        BY <1>2, SMT DEF Copies
      <4> QED
        BY <4>1, <4>2
    <3>3. Becomes(s, d)
      BY <2>5
    <3> HIDE DEF d
    <3>4. Agrees(d, store)
      BY <2>5, <3>1, <3>2 DEF Agrees
    <3> QED
      BY <1>5, <2>1, <3>1, <3>2, <3>3, <3>4, ReadingSteps
  <2> QED
    BY <1>8, <2>3, <2>4, <2>5 DEF Reuse, c
<1>9. CASE Choose(s)
  <2>1. PICK i \in Present, purpose \in {"run", "edit"} :
          Becomes(s, [pc |-> IF purpose = "run" THEN "saved" ELSE "save", purpose |-> purpose,
                      id |-> i, plan |-> store[i].plan, executed |-> store[i].executed])
    BY <1>9 DEF Choose
  <2> DEFINE d == [pc |-> IF purpose = "run" THEN "saved" ELSE "save", purpose |-> purpose,
                   id |-> i, plan |-> store[i].plan, executed |-> store[i].executed]
  <2>2. i \in Ids /\ store[i].state # "absent" /\ store[i] \in Entries
    BY <1>1 DEF Present, StoreTyped
  <2>3. /\ d \in Copies /\ d.pc \in {"saved", "save"} /\ d.id = i /\ d.executed = store[i].executed
        /\ d.purpose # "create"
    BY <2>2, SMT DEF Copies, Entries
  <2>4. Becomes(s, d) /\ stale' = [stale EXCEPT ![s] = FALSE] /\ UNCHANGED <<now, store, taken, copied>>
    BY <1>9, <2>1 DEF Choose, Current
  <2> HIDE DEF d
  <2>5. Agrees(d, store)
    BY <2>2, <2>3 DEF Agrees
  <2> QED
    BY <1>5, <2>2, <2>3, <2>4, <2>5, ReadingSteps
<1>10. CASE Edit(s) \/ Settle(s)
  <2>1. PICK p \in Plans : Becomes(s, [c EXCEPT !.plan = p])
    BY <1>10 DEF Edit, Settle, c
  <2> DEFINE d == [c EXCEPT !.plan = p]
  <2>2. /\ d \in Copies /\ d.pc = c.pc /\ d.id = c.id /\ d.purpose = c.purpose /\ d.executed = c.executed
    <3>1. d \in Copies
      BY <1>2, CopyFields
    <3>2. d.pc = c.pc /\ d.id = c.id /\ d.purpose = c.purpose /\ d.executed = c.executed
      BY <1>2, SMT DEF Copies
    <3> QED
      BY <3>1, <3>2
  <2>3. /\ c.pc \in {"save", "saved"} /\ c.purpose # "create"
        /\ UNCHANGED <<now, store, taken, copied, stale>> /\ Becomes(s, d)
    BY <1>10, <2>1 DEF Edit, Settle, At, c, histories
  <2> HIDE DEF d
  <2>4. ~stale[s] /\ taken[d.id] < 2 => Agrees(d, store)
    BY <1>1, <2>2, <2>3 DEF Fresh, Agrees, c
  <2> QED
    BY <1>2, <1>3, <2>2, <2>3, <2>4, ReadingSteps DEF c
<1>11. CASE GiveUp(s) \/ Die(s)
  BY <1>7, <1>11 DEF GiveUp, Die, histories
<1>12. CASE Confirm(s)
  <2> DEFINE d == [c EXCEPT !.pc = "execute"]
  <2>1. d \in Copies /\ d.pc = "execute" /\ d.id = c.id /\ d.purpose = c.purpose /\ d.executed = c.executed
    BY <1>6
  <2>2. c.pc = "saved" /\ UNCHANGED <<now, store, taken, copied, stale>> /\ Becomes(s, d)
    BY <1>12 DEF Confirm, At, Go, c, histories
  <2> HIDE DEF d
  <2>3. ~stale[s] /\ taken[d.id] < 2 => Agrees(d, store)
    BY <1>1, <2>1, <2>2 DEF Fresh, Agrees, c
  <2> QED
    BY <1>2, <1>3, <2>1, <2>2, <2>3, ReadingSteps DEF c
\* The steps that write.
<1>13. c.pc \in {"save", "fill", "execute"} =>
         /\ ~At(s, "menu") /\ ~At(s, "list") /\ c.id \in Ids
         /\ Contents(s) \in Entries /\ [Contents(s) EXCEPT !.executed = TRUE] \in Entries
         /\ [store[c.id] EXCEPT !.state = "torn"] \in Entries
  BY <1>1, <1>3, WrittenFiles DEF At, c
<1>14. /\ Contents(s).state = "whole" /\ Contents(s).executed = c.executed
       /\ [Contents(s) EXCEPT !.executed = TRUE].state = "whole"
  BY SMT DEF Contents, c
<1>15. Written(s) =>
         \E d \in Copies : /\ Becomes(s, d)
                           /\ d = Menu \/ (d.pc = "saved" /\ d.id = c.id /\ d.executed = c.executed)
  BY <1>4, <1>6 DEF Written, Go, c
<1>16. CASE SaveDirectly(s) \/ Fill(s)
  <2>1. /\ c.pc \in {"save", "fill"} /\ Write(s, Contents(s)) /\ Written(s)
        /\ UNCHANGED <<now, taken, copied>>
    BY <1>16 DEF SaveDirectly, Fill, At, c
  <2>2. PICK d \in Copies : /\ Becomes(s, d)
                            /\ d = Menu \/ (d.pc = "saved" /\ d.id = c.id /\ d.executed = c.executed)
    BY <1>15, <2>1
  <2>3. Contents(s).state # "absent" /\ Contents(s).state # "torn"
    BY <1>14
  <2> QED
    BY <1>13, <1>14, <2>1, <2>2, <2>3, WritingSteps DEF c
<1>17. CASE SaveBySudo(s)
  <2> DEFINE d == [c EXCEPT !.pc = "fill"]
             e == [store[c.id] EXCEPT !.state = "torn"]
  <2>1. d \in Copies /\ d.pc = "fill" /\ d.id = c.id /\ d.executed = c.executed
    BY <1>6
  <2>2. /\ c.pc = "save" /\ Write(s, e) /\ copied' = copied \cup {c.id} /\ Becomes(s, d)
        /\ UNCHANGED <<now, taken>>
    BY <1>17 DEF SaveBySudo, At, Go, c
  <2>3. c.id \in Ids /\ store[c.id] \in Entries
    BY <1>1, <1>13, <2>2 DEF StoreTyped
  <2>4. e.state = "torn" /\ e.executed = store[c.id].executed
    BY <2>3, SMT DEF Entries
  <2>5. e \in Entries /\ ~At(s, "menu") /\ ~At(s, "list")
    BY <1>13, <2>2
  <2> HIDE DEF d, e
  <2>6. ~stale[s] /\ taken[c.id] < 2 => (e.executed => d.executed)
    BY <1>1, <2>1, <2>2, <2>4 DEF Fresh, Agrees, c
  <2> QED
    BY <2>1, <2>2, <2>4, <2>5, <2>6, WritingSteps DEF c
<1>18. CASE SaveFails(s)
  <2>1. Becomes(s, Menu) /\ UNCHANGED <<now, taken, copied>>
    BY <1>18 DEF SaveFails
  <2>2. CASE UNCHANGED <<store, stale>>
    BY <1>7, <2>1, <2>2
  <2>3. CASE At(s, "fill") /\ Write(s, Contents(s))
    <3>1. c.pc = "fill" /\ Contents(s).state # "absent" /\ Contents(s).state # "torn"
      BY <1>14, <2>3 DEF At, c
    <3> QED
      BY <1>4, <1>13, <2>1, <2>3, <3>1, WritingSteps DEF c
  <2> QED
    BY <1>18, <2>2, <2>3 DEF SaveFails
<1>19. CASE Execute(s)
  <2> DEFINE e == [Contents(s) EXCEPT !.executed = TRUE]
  <2>1. c.pc = "execute" /\ Becomes(s, Menu) /\ UNCHANGED <<now, taken, copied>>
    BY <1>19 DEF Execute, At, c
  <2>2. CASE UNCHANGED <<store, stale>>
    BY <1>7, <2>1, <2>2
  <2>3. CASE Write(s, e)
    <3>1. e \in Entries /\ e.state # "absent" /\ e.state # "torn"
      BY <1>13, <1>14, <2>1
    <3> HIDE DEF e
    <3> QED
      BY <1>4, <1>13, <2>1, <2>3, <3>1, WritingSteps DEF c
  <2> QED
    BY <1>19, <2>2, <2>3 DEF Execute
<1> QED
  BY <1>8, <1>9, <1>10, <1>11, <1>12, <1>16, <1>17, <1>18, <1>19, CreatingSteps, DeletingSteps
     DEF Program, User

\* The store's inductive invariant, for any number of sessions.
LEMMA StoreInvariance == Spec => []StoreInv
<1>1. Init => StoreInv
  BY StoreStarts
<1>2. StoreInv /\ [Next]_vars => StoreInv'
  <2> SUFFICES ASSUME StoreInv, [Next]_vars PROVE StoreInv'
    OBVIOUS
  <2>1. CASE UNCHANGED vars
    BY <2>1 DEF vars, StoreInv, StoreTyped, Filed, Holding, Alone, Fresh, Agrees, Present, At, Creating
  <2>2. CASE Tick
    <3>1. now' \in 0 .. MaxTime
      BY <2>2, PlansAssumption, SMT DEF Tick, StoreInv, StoreTyped
    <3> QED
      BY <2>2, <3>1
         DEF Tick, histories, StoreInv, StoreTyped, Filed, Holding, Alone, Fresh, Agrees, Present, At, Creating
  <2> QED
    BY <2>1, <2>2, SessionSteps DEF Next, Idle
<1> QED
  BY <1>1, <1>2, PTL DEF Spec

\* A saved plan stays readable unless sudo was copying over it, and no review
\* overwrites another plan it could have seen, whatever the sessions do.
THEOREM PlansStaySaved == Spec => []SavedPlansKept
<1>1. StoreInv => SavedPlansKept
  <2> SUFFICES ASSUME StoreInv PROVE SavedPlansKept
    OBVIOUS
  <2>1. StoreStaysListable
    BY SMT DEF StoreInv, StoreTyped, Filed, StoreStaysListable, Present, Entries
  <2>2. ReviewsKeepPlans
    BY DEF StoreInv, Fresh, Agrees, ReviewsKeepPlans, At, Creating, Present
  <2> QED
    BY <2>1, <2>2 DEF SavedPlansKept
<1> QED
  BY <1>1, StoreInvariance, PTL

\* What a session writes from a current copy: an execution stays recorded, and
\* only a first save makes a file.
LEMMA HistorySteps ==
  ASSUME StoreInv, Next, NEW s \in Sessions, NEW i \in Ids, Writes(s, i), ~stale[s], taken[i] < 2
  PROVE  /\ store[i].executed => store'[i].executed
         /\ i \notin Present => Creating(s) /\ At(s, "save")
<1>1. StoreTyped /\ Fresh(s) /\ session[s].id = i /\ store'[i] # store[i] /\ session'[s] # session[s]
  BY DEF StoreInv, Writes
\* It is a step of s that writes.
<1>2. /\ session[s].pc \in {"save", "fill", "execute"}
      /\ \E e \in {Contents(s), [Contents(s) EXCEPT !.executed = TRUE],
                    [store[i] EXCEPT !.state = "torn"]} : Write(s, e)
  <2>1. PICK t \in Sessions : Program(t) \/ User(t) \/ Die(t)
    BY <1>1 DEF Next, Tick, Idle, vars
  <2>2. UNCHANGED session \/ (\E c : Becomes(t, c))
    BY <2>1 DEF Program, User, Reuse, SaveDirectly, SaveBySudo, Fill, SaveFails, Execute, Written, Go,
          BeginCreate, Choose, Edit, Settle, GiveUp, Confirm, Delete, Die
  <2>3. t = s
    BY <1>1, <2>2 DEF Becomes, StoreTyped
  <2>4. SaveDirectly(s) \/ SaveBySudo(s) \/ Fill(s) \/ SaveFails(s) \/ Execute(s)
    BY <1>1, <2>1, <2>3 DEF Program, User, Reuse, BeginCreate, Choose, Edit, Settle, GiveUp, Confirm, Delete, Die
  <2> QED
    BY <1>1, <2>4 DEF SaveDirectly, SaveBySudo, Fill, SaveFails, Execute, At
<1>3. Agrees(session[s], store)
  BY <1>1, <1>2 DEF Fresh
<1>4. i \notin Present => Creating(s) /\ At(s, "save")
  BY <1>1, <1>3 DEF Agrees, Present, Creating, At
<1>5. store[i].executed => store'[i].executed
  <2>1. PICK e \in {Contents(s), [Contents(s) EXCEPT !.executed = TRUE],
                    [store[i] EXCEPT !.state = "torn"]} : Write(s, e)
    BY <1>2
  <2>2. store'[i] = e
    BY <1>1, <2>1 DEF Write, StoreTyped
  <2>3. Contents(s).executed = session[s].executed /\ [Contents(s) EXCEPT !.executed = TRUE].executed
    BY DEF Contents
  <2>4. [store[i] EXCEPT !.state = "torn"].executed = store[i].executed
    BY <1>1, SMT DEF StoreTyped, Entries
  <2> QED
    BY <1>1, <1>3, <2>1, <2>2, <2>3, <2>4 DEF Agrees
<1> QED
  BY <1>4, <1>5

\* That a plan was executed is never forgotten, and a deleted plan does not come
\* back, by a session whose copy is current.
THEOREM HistoriesKept == Spec => HistoryKept
<1>1. StoreInv /\ [Next]_vars =>
        [\A s \in Sessions, i \in Ids :
           Writes(s, i) /\ ~stale[s] /\ taken[i] < 2 =>
             /\ store[i].executed => store'[i].executed
             /\ i \notin Present => Creating(s) /\ At(s, "save")]_vars
  BY HistorySteps
<1> QED
  BY <1>1, StoreInvariance, PTL DEF Spec, HistoryKept
=============================================================================
