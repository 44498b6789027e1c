------------------------------ MODULE PlanStore ------------------------------
(***************************************************************************)
(* The saved plans (planned_executions.go) and the application sessions    *)
(* that create, run, edit and delete them (app.go, multios.go,             *)
(* planned_execution_ui.go, update_usb.go).  Every session lists the       *)
(* directory, works on its own copy for a while and writes the copy back.  *)
(***************************************************************************)
EXTENDS Naturals, FiniteSets

CONSTANTS Sessions,   \* running instances of the application
          Kinds,      \* kinds of plans the menus create: single, multios
          Plans,      \* plans, with their target, as compared for reuse
          MaxTime,    \* bound on the clock, in seconds
          MaxDeaths   \* bound on killed sessions

VARIABLES now,        \* the clock, which names new plans
          writable,   \* may the user write to the directory without sudo?
          store,      \* the plan files: [Ids -> Entry]
          session,    \* what each session is doing
          asked,      \* the second from which each user may finish another wizard
          deaths,     \* killed sessions so far
          taken,      \* history: how many creations were given each id
          stale,      \* history: has another session changed the file of this copy?
          copied      \* history: files that sudo cp has started to overwrite

vars == <<now, writable, store, session, asked, deaths, taken, stale, copied>>
histories == <<taken, stale, copied>>

-----------------------------------------------------------------------------
(* Data.                                                                   *)

\* The nine digits after the second are zeros: an id is kind and second.
Ids == Kinds \X (0 .. MaxTime)
NoId == <<"none", 0>>
NoPlan == "no plan"

\* A file is "absent", "whole", or "torn" when a copy has truncated it and not filled it yet.
NoEntry == [state |-> "absent", plan |-> NoPlan, executed |-> FALSE]

ASSUME PlansAssumption ==
  NoPlan \notin Plans /\ NoId[1] \notin Kinds /\ MaxTime \in Nat /\ MaxDeaths \in Nat

\* purpose: which menu action the copy in id, plan, executed belongs to.
Menu == [pc |-> "menu", purpose |-> "none", id |-> NoId, plan |-> NoPlan, executed |-> FALSE]

Init ==
  /\ now = 0
  /\ writable \in BOOLEAN
  /\ store = [i \in Ids |-> NoEntry]
  /\ session = [s \in Sessions |-> Menu]
  /\ asked = [s \in Sessions |-> 0]
  /\ deaths = 0
  /\ taken = [i \in Ids |-> 0]
  /\ stale = [s \in Sessions |-> FALSE]
  /\ copied = {}

Present == {i \in Ids : store[i].state # "absent"}
\* ListPlannedExecutions gives up at the first file it cannot parse.
Listable == \A i \in Present : store[i].state = "whole"

At(s, label) == session[s].pc = label
Becomes(s, new) == session' = [session EXCEPT ![s] = new]
Go(s, label) == Becomes(s, [session[s] EXCEPT !.pc = label])
\* The copies other sessions hold of file i are out of date from now on.
Overtake(s, i) ==
  stale' = [t \in Sessions |-> stale[t] \/ (t # s /\ session[t].id = i)]
\* The file of session s's copy becomes e.
Write(s, e) == store' = [store EXCEPT ![session[s].id] = e] /\ Overtake(s, session[s].id)
\* A copy just read is current.
Current(s) == stale' = [stale EXCEPT ![s] = FALSE]
Contents(s) == [state |-> "whole", plan |-> session[s].plan, executed |-> session[s].executed]

-----------------------------------------------------------------------------
(* The clock and the end of a session.                                     *)

Tick ==
  /\ now < MaxTime
  /\ now' = now + 1
  /\ UNCHANGED <<writable, store, session, asked, deaths, histories>>

Die(s) ==
  /\ deaths < MaxDeaths /\ ~At(s, "menu")
  /\ deaths' = deaths + 1
  /\ Becomes(s, Menu)
  /\ UNCHANGED <<now, writable, store, asked, histories>>

-----------------------------------------------------------------------------
(* Menu actions.                                                           *)

\* handleCreate, handleCreateMultiOS: the id is taken before the list is read.
\* Nobody answers the wizard twice within one second.
BeginCreate(s) ==
  /\ At(s, "menu") /\ asked[s] <= now
  /\ asked' = [asked EXCEPT ![s] = now + 1]
  /\ \E kind \in Kinds, p \in Plans :
       /\ Becomes(s, [pc |-> "list", purpose |-> "create", id |-> <<kind, now>>, plan |-> p,
                      executed |-> FALSE])
       /\ taken' = [taken EXCEPT ![<<kind, now>>] = @ + 1]
  /\ UNCHANGED <<now, writable, store, deaths, stale, copied>>

\* Broken variant: a reused file gets the new plan's empty history.
ReuseAfresh(s) ==
  /\ At(s, "list")
  /\ LET same == {i \in Present : store[i].plan = session[s].plan /\ i[1] = session[s].id[1]} IN
     \/ /\ Listable /\ same = {}
        /\ Go(s, "save")
     \/ \E i \in same : Listable /\ Becomes(s, [session[s] EXCEPT !.pc = "save", !.id = i])
     \/ ~Listable /\ Becomes(s, Menu)
  /\ Current(s)
  /\ UNCHANGED <<now, writable, store, asked, deaths, taken, copied>>

\* Broken variant: any saved plan of the kind is updated.
ReuseAnyOfKind(s) ==
  /\ At(s, "list")
  /\ LET same == {i \in Present : i[1] = session[s].id[1]} IN
     \/ /\ Listable /\ same = {}
        /\ Go(s, "save")
     \/ \E i \in same : Listable /\ Becomes(s, [session[s] EXCEPT !.pc = "save", !.id = i])
     \/ ~Listable /\ Becomes(s, Menu)
  /\ Current(s)
  /\ UNCHANGED <<now, writable, store, asked, deaths, taken, copied>>

\* SaveOrReusePlannedExecution: the same plan keeps its id and its history.
Reuse(s) ==
  /\ At(s, "list")
  /\ LET same == {i \in Present : store[i].plan = session[s].plan /\ i[1] = session[s].id[1]} IN
     \/ /\ Listable /\ same = {}
        /\ Go(s, "save")
     \/ \E i \in same :
          /\ Listable
          /\ Becomes(s, [session[s] EXCEPT !.pc = "save", !.id = i,
                                           !.executed = store[i].executed])
     \/ ~Listable /\ Becomes(s, Menu)
  /\ Current(s)
  /\ UNCHANGED <<now, writable, store, asked, deaths, taken, copied>>

\* choosePlannedExecution: run, update or edit a listed plan
Choose(s) ==
  /\ At(s, "menu") /\ Listable
  /\ \E i \in Present, purpose \in {"run", "edit"} :
       Becomes(s, [pc |-> IF purpose = "run" THEN "saved" ELSE "save", purpose |-> purpose,
                   id |-> i, plan |-> store[i].plan, executed |-> store[i].executed])
  /\ Current(s)
  /\ UNCHANGED <<now, writable, store, asked, deaths, taken, copied>>

\* editPlannedExecution, while the copy is open
Edit(s) ==
  /\ At(s, "save") /\ session[s].purpose = "edit"
  /\ \E p \in Plans \ {session[s].plan} : Becomes(s, [session[s] EXCEPT !.plan = p])
  /\ UNCHANGED <<now, writable, store, asked, deaths, histories>>

\* Discard an edit, decline a write, or fail to write the USB.
GiveUp(s) ==
  /\ \/ session[s].purpose = "edit" /\ At(s, "save")
     \/ session[s].pc \in {"saved", "execute"}
  /\ Becomes(s, Menu)
  /\ UNCHANGED <<now, writable, store, asked, deaths, histories>>

\* reviewSavedPlan: the target, or a choice an old plan lacks, is settled now.
Settle(s) ==
  /\ At(s, "saved") /\ session[s].purpose = "run"
  /\ \E p \in Plans \ {session[s].plan} : Becomes(s, [session[s] EXCEPT !.plan = p])
  /\ UNCHANGED <<now, writable, store, asked, deaths, histories>>

Confirm(s) ==
  /\ At(s, "saved")
  /\ Go(s, "execute")
  /\ UNCHANGED <<now, writable, store, asked, deaths, histories>>

\* Broken variant: the file is emptied and stays.
DeleteContents(s) ==
  /\ At(s, "menu") /\ Listable
  /\ \E i \in Present : store' = [store EXCEPT ![i] = [NoEntry EXCEPT !.state = "empty"]]
                       /\ Overtake(s, i)
  /\ UNCHANGED <<now, writable, session, asked, deaths, taken, copied>>

Delete(s) ==
  /\ At(s, "menu") /\ Listable
  /\ \E i \in Present : store' = [store EXCEPT ![i] = NoEntry] /\ Overtake(s, i)
  /\ UNCHANGED <<now, writable, session, asked, deaths, taken, copied>>

-----------------------------------------------------------------------------
(* Writing a plan file.                                                    *)

Written(s) ==
  IF session[s].purpose = "edit" THEN Becomes(s, Menu) ELSE Go(s, "saved")

\* Broken variant: the file is opened for writing in place.
SaveInPlace(s) ==
  /\ At(s, "save") /\ writable
  /\ Write(s, [store[session[s].id] EXCEPT !.state = "torn"])
  /\ Go(s, "fill")
  /\ UNCHANGED <<now, writable, asked, deaths, taken, copied>>

\* writeManagedFileWithoutSudo: a temporary file and a rename
SaveDirectly(s) ==
  /\ At(s, "save") /\ writable
  /\ Write(s, Contents(s))
  /\ Written(s)
  /\ UNCHANGED <<now, writable, asked, deaths, taken, copied>>

\* writeManagedFile's fallback after any error of the direct write, in a writable
\* directory too (a full disk): sudo cp -f truncates, then fills the file.
SaveBySudo(s) ==
  /\ At(s, "save")
  /\ Write(s, [store[session[s].id] EXCEPT !.state = "torn"])
  /\ copied' = copied \cup {session[s].id}
  /\ Go(s, "fill")
  /\ UNCHANGED <<now, writable, asked, deaths, taken>>

Fill(s) ==
  /\ At(s, "fill")
  /\ Write(s, Contents(s))
  /\ Written(s)
  /\ UNCHANGED <<now, writable, asked, deaths, taken, copied>>

\* sudo mkdir or cp fails before it has touched the file, or cp half way, or the
\* chmod after it: the action ends with the error.
SaveFails(s) ==
  /\ \/ session[s].pc \in {"save", "fill"} /\ UNCHANGED <<store, stale>>
     \/ /\ At(s, "fill")
        /\ Write(s, Contents(s))
  /\ Becomes(s, Menu)
  /\ UNCHANGED <<now, writable, asked, deaths, taken, copied>>

\* recordSuccessfulPlannedExecution: the copy goes back, but never by sudo; what
\* cannot be written directly is not recorded.
Execute(s) ==
  /\ At(s, "execute")
  /\ Becomes(s, Menu)
  /\ \/ /\ writable
        /\ Write(s, [Contents(s) EXCEPT !.executed = TRUE])
     \/ UNCHANGED <<store, stale>>
  /\ UNCHANGED <<now, writable, asked, deaths, taken, copied>>

-----------------------------------------------------------------------------

Program(s) == Reuse(s) \/ SaveDirectly(s) \/ SaveBySudo(s) \/ Fill(s)
              \/ SaveFails(s) \/ Execute(s)
User(s) == BeginCreate(s) \/ Choose(s) \/ Edit(s) \/ Settle(s) \/ GiveUp(s) \/ Confirm(s)
           \/ Delete(s)

Idle == now = MaxTime /\ UNCHANGED vars

Next == Tick \/ Idle \/ \E s \in Sessions : Program(s) \/ User(s) \/ Die(s)

Spec == Init /\ [][Next]_vars

-----------------------------------------------------------------------------
(* Properties.                                                             *)

Creating(s) == session[s].purpose = "create"

\* As long as a file is written by renaming, no death of a session at any moment
\* makes ListPlannedExecutions, and with it every menu that shows plans, fail:
\* only the copy in place by sudo leaves a file that cannot be parsed.
StoreStaysListable == \A i \in Present : store[i].state = "whole" \/ i \in copied

\* README.md: "Review screens now save or reuse a planned execution before the
\* destructive confirmation prompt, so backing out of the write still leaves
\* the plan available": a review never overwrites another plan it could have
\* seen: its copy is current, and its id was given out once.
ReviewsKeepPlans ==
  \A s \in Sessions :
    Creating(s) /\ At(s, "save") /\ ~stale[s] /\ taken[session[s].id] < 2
        /\ session[s].id \in Present =>
      store[session[s].id].plan = session[s].plan

\* Saved plans stay readable and stay the plans that were reviewed.
SavedPlansKept == StoreStaysListable /\ ReviewsKeepPlans

Writes(s, i) == session[s].id = i /\ store'[i] # store[i] /\ session'[s] # session[s]

\* What another session has recorded or deleted is only undone by a session that
\* read the plan before that (a run of hours may), never by one whose copy is
\* current: that a plan was executed is not forgotten while its file is there,
\* and only a first save brings a file into being.
HistoryKept ==
  [][\A s \in Sessions, i \in Ids :
       Writes(s, i) /\ ~stale[s] /\ taken[i] < 2 =>
         /\ store[i].executed => store'[i].executed
         /\ i \notin Present => Creating(s) /\ At(s, "save")]_vars
=============================================================================
