---------------------------- MODULE WebSession ----------------------------
(***************************************************************************)
(* One browser tab against the API process: RunProvider                    *)
(* (apps/web/src/context/RunContext.tsx), the fetch hooks of               *)
(* hooks/useAssayApi.ts, the pages that own a request, and the in-memory   *)
(* RunRegistry of apps/api.  The tab may be reloaded, which keeps only the *)
(* stored pointer; the server may be restarted, which keeps nothing; an    *)
(* answer may be late or lost.                                             *)
(*                                                                         *)
(* A run id is content-addressed, so a run is the dataset it was made      *)
(* over, and a decision is the run that minted it.  A handler and the      *)
(* effects of the render it causes are one step (Commit): React runs them  *)
(* before the next event.  A page is what it fetches and which controls it *)
(* offers; what it draws is left out.                                      *)
(***************************************************************************)
EXTENDS Naturals, FiniteSets

CONSTANTS
  Datasets,     \* the periods both sides list: DEMO_SCENARIOS, DEMO_DATASET_IDS
  Default,      \* DEFAULT_SCENARIO_ID
  None,
  MaxStarts,    \* bound: presses of a start button
  MaxRestarts   \* bound: restarts of the server

VARIABLES
  registry,   \* RunRegistry.#runs of the living server process
  restarts,
  pointer,    \* RUN_POINTER_KEY in session storage
  started,    \* presses of a start button so far
  ui          \* the tab's state, a record

vars == <<registry, restarts, pointer, started, ui>>

DetailPages == {"trail", "certificate"}
Pages == {"command_center", "queue", "audit"} \cup DetailPages
Views == {"close", "exceptions", "detail", "explain", "panel", "verify"}
Kinds == {"idle", "restoring", "restored", "not_found", "api_mismatch",
          "unexpected_response", "unreachable"}

ASSUME WebAssumption ==
  /\ Default \in Datasets /\ None \notin Datasets \cup Kinds
  /\ MaxStarts \in Nat /\ MaxRestarts \in Nat

-----------------------------------------------------------------------------
(* ApiState of a hook: what it is about and the requests it still hears    *)

Idle == [asked |-> {}, data |-> None, loading |-> FALSE, error |-> FALSE]

\* Fault: the effect's cleanup does not cancel the request before.
AskUncancelled(a, k) == [asked |-> a.asked \cup {k}, data |-> None,
                         loading |-> TRUE, error |-> FALSE]

\* A fetch effect, or a fresh mount: the request before is no longer heard.
Ask(a, k) == [asked |-> {k}, data |-> None, loading |-> TRUE, error |-> FALSE]

\* A fetch behind a button: nothing cancels the one before.
Press(a, k) == [asked |-> a.asked \cup {k}, data |-> None, loading |-> TRUE, error |-> FALSE]

\* useController keeps the trace it has while it asks again.
PressKeeping(a, k) == [Press(a, k) EXCEPT !.data = a.data]

Answered(a, k) == [asked |-> a.asked \ {k}, data |-> k, loading |-> FALSE, error |-> FALSE]
Failed(a, k) == [asked |-> a.asked \ {k}, data |-> None, loading |-> FALSE, error |-> TRUE]

-----------------------------------------------------------------------------
(* What the render of a state is                                           *)

RunViews == {"close", "exceptions"}
Loading(u) == u.create.loading \/ \E v \in RunViews : u.views[v].loading
Error(u) == u.create.error \/ \E v \in RunViews : u.views[v].error

\* Fault: the gate lets a page through while the lookup is out.
GateIgnoresRestoring(u) ==
  IF u.rehydrate \in {"idle", "restored", "restoring"} THEN None ELSE u.rehydrate

\* useRunGate: the state every page renders instead of itself, or None.
Gate(u) == IF u.rehydrate \in {"idle", "restored"} THEN None ELSE u.rehydrate

StartOffered(u) ==
  \/ Gate(u) = "not_found"
  \/ /\ Gate(u) = None
     /\ \/ u.page = "command_center" /\ (u.run # None \/ ~Loading(u))
        \/ u.page = "queue" /\ ~Loading(u) /\ (u.run = None \/ Error(u))
        \/ u.page = "audit" /\ u.run = None

PickerOffered(u) ==
  /\ ~Loading(u)
  /\ \/ Gate(u) = "not_found"
     \/ Gate(u) = None /\ u.page = "command_center" /\ (u.run = None \/ ~Error(u))

PanelMounted(u) ==
  u.page = "command_center" /\ Gate(u) = None /\ u.run # None /\ ~Error(u)

DetailKey(u) ==
  IF u.page \in DetailPages /\ u.run # None /\ u.selected # None
  THEN <<u.page, u.run, u.selected>> ELSE None

ExplainMounted(u) == Gate(u) = None /\ u.views["detail"].data # None

\* The dependencies of a view's effect, or the key of the panel that owns it.
KeyOf(v, u) ==
  CASE v \in RunViews -> u.run
    [] v = "detail"   -> DetailKey(u)
    [] v = "panel"    -> IF PanelMounted(u) THEN u.run ELSE None

Effect(v, old, new) ==
  IF KeyOf(v, new) = KeyOf(v, old) THEN new.views[v]
  ELSE IF KeyOf(v, new) = None THEN Idle
  ELSE Ask(new.views[v], KeyOf(v, new))

\* The effects of rendering new after old.
Commit(old, new) ==
  LET fetched == [new EXCEPT !.views["close"] = Effect("close", old, new),
                             !.views["exceptions"] = Effect("exceptions", old, new),
                             !.views["detail"] = Effect("detail", old, new)]
      sameDetail == DetailKey(new) = DetailKey(old) /\ ExplainMounted(fetched)
  IN  [fetched EXCEPT
         !.views["panel"] = Effect("panel", old, fetched),
         !.views["explain"] = IF sameDetail THEN @ ELSE Idle,
         !.views["verify"] = IF new.page = old.page THEN @ ELSE Idle]

Render(new) == ui' = Commit(ui, new)

-----------------------------------------------------------------------------
\* A page load with p in storage: RunProvider's initial state and its effect.
Loaded(p, page) ==
  [page |-> page, run |-> None, selected |-> None,
   dataset |-> IF p = None THEN Default ELSE p,
   rehydrate |-> IF p = None THEN "idle" ELSE "restoring",
   lookup |-> IF p = None THEN {} ELSE {[id |-> p, reply |-> "waiting"]},
   create |-> [loading |-> FALSE, error |-> FALSE],
   starts |-> {},
   views |-> [v \in Views |-> Idle]]

Init ==
  /\ registry = {} /\ restarts = 0 /\ pointer = None /\ started = 0
  /\ \E page \in Pages : ui = Loaded(None, page)

-----------------------------------------------------------------------------
(* The person at the tab                                                   *)

\* startDemo over the selected period.
StartDemo ==
  /\ StartOffered(ui) /\ started < MaxStarts
  /\ started' = started + 1
  /\ Render([ui EXCEPT
       !.selected = None, !.rehydrate = "idle",
       !.create = [loading |-> TRUE, error |-> FALSE],
       !.starts = @ \cup {[n |-> started, id |-> ui.dataset, reply |-> "waiting"]}])
  /\ UNCHANGED <<registry, restarts, pointer>>

SelectDataset(d) ==
  /\ PickerOffered(ui) /\ d # ui.dataset
  /\ Render([ui EXCEPT !.dataset = d])
  /\ UNCHANGED <<registry, restarts, pointer, started>>

\* A queue row opened on the trail or on the certificate.
SelectDecision(page) ==
  /\ ui.page = "queue" /\ Gate(ui) = None /\ ~Loading(ui) /\ ~Error(ui)
  /\ ui.views["exceptions"].data # None
  /\ Render([ui EXCEPT !.selected = ui.views["exceptions"].data, !.page = page])
  /\ UNCHANGED <<registry, restarts, pointer, started>>

Navigate(page) ==
  /\ page # ui.page
  /\ page \in DetailPages => ui.selected # None
  /\ Render([ui EXCEPT !.page = page])
  /\ UNCHANGED <<registry, restarts, pointer, started>>

RetryRehydrate ==
  /\ Gate(ui) \in {"api_mismatch", "unexpected_response", "unreachable"}
  /\ pointer # None
  /\ Render([ui EXCEPT !.rehydrate = "restoring",
                       !.lookup = {[id |-> pointer, reply |-> "waiting"]}])
  /\ UNCHANGED <<registry, restarts, pointer, started>>

\* Verify chain from genesis.
Verify ==
  /\ ui.page = "audit" /\ Gate(ui) = None /\ ui.run # None
  /\ ~ui.views["verify"].loading
  /\ Render([ui EXCEPT !.views["verify"] = Press(@, ui.run)])
  /\ UNCHANGED <<registry, restarts, pointer, started>>

Explain ==
  /\ ExplainMounted(ui) /\ ui.views["explain"] = Idle
  /\ Render([ui EXCEPT !.views["explain"] = Press(@, DetailKey(ui))])
  /\ UNCHANGED <<registry, restarts, pointer, started>>

ResetExplain ==
  /\ ui.views["explain"].data # None \/ ui.views["explain"].error
  /\ Render([ui EXCEPT !.views["explain"] = Idle])
  /\ UNCHANGED <<registry, restarts, pointer, started>>

RunControllerAgain ==
  /\ PanelMounted(ui) /\ ~ui.views["panel"].loading
  /\ Render([ui EXCEPT !.views["panel"] = PressKeeping(@, ui.run)])
  /\ UNCHANGED <<registry, restarts, pointer, started>>

\* The reload drops the tab's state; a POST already sent may still be run.
Reload ==
  /\ registry' \in {registry, registry \cup {c.id : c \in ui.starts}}
  /\ ui' = Loaded(pointer, ui.page)
  /\ UNCHANGED <<restarts, pointer, started>>

-----------------------------------------------------------------------------
(* The server, and the answers                                             *)

\* POST /runs of a listed dataset: RunRegistry.create.
ServeStart(c) ==
  /\ c.reply = "waiting"
  /\ registry' = registry \cup {c.id}
  /\ ui' = [ui EXCEPT !.starts = (@ \ {c}) \cup {[c EXCEPT !.reply = "created"]}]
  /\ UNCHANGED <<restarts, pointer, started>>

\* create resolves: setRun, then writePointer.
StartAnswered(c) ==
  /\ c.reply = "created"
  /\ pointer' = c.id
  /\ Render([ui EXCEPT !.starts = @ \ {c}, !.run = c.id,
                       !.create = [loading |-> FALSE, error |-> FALSE]])
  /\ UNCHANGED <<registry, restarts, started>>

\* create rejects: the network, or a run that threw.  Run and pointer stay.
StartFailed(c) ==
  /\ Render([ui EXCEPT !.starts = @ \ {c}, !.create = [loading |-> FALSE, error |-> TRUE]])
  /\ UNCHANGED <<registry, restarts, pointer, started>>

\* GET /runs/:id, by this server or by one that answers something else.
ServeLookup(c) ==
  /\ c.reply = "waiting"
  /\ \E answer \in {IF c.id \in registry THEN "found" ELSE "not_found",
                    "api_mismatch", "unexpected_response"} :
       ui' = [ui EXCEPT !.lookup = {[c EXCEPT !.reply = answer]}]
  /\ UNCHANGED <<registry, restarts, pointer, started>>

\* The rehydrate effect's continuation.
LookupAnswered(c) ==
  /\ c.reply # "waiting"
  /\ pointer' = IF c.reply = "not_found" THEN None ELSE pointer
  /\ Render(IF c.reply = "found"
            THEN [ui EXCEPT !.lookup = {}, !.run = c.id, !.dataset = c.id,
                            !.rehydrate = "restored"]
            ELSE [ui EXCEPT !.lookup = {}, !.rehydrate = c.reply])
  /\ UNCHANGED <<registry, restarts, started>>

LookupLost(c) ==
  /\ Render([ui EXCEPT !.lookup = {}, !.rehydrate = "unreachable"])
  /\ UNCHANGED <<registry, restarts, pointer, started>>

\* What a GET names is held by this process.
Held(v, k) == IF v \in {"detail", "explain"} THEN k[2] \in registry /\ k[3] = k[2]
              ELSE k \in registry

ViewAnswered(v, k) ==
  /\ Held(v, k)
  /\ Render([ui EXCEPT !.views[v] = Answered(@, k)])
  /\ UNCHANGED <<registry, restarts, pointer, started>>

\* 404 for what is not held, or no answer at all.
ViewFailed(v, k) ==
  /\ Render([ui EXCEPT !.views[v] = Failed(@, k)])
  /\ UNCHANGED <<registry, restarts, pointer, started>>

\* The runs live as long as the process.
Restart ==
  /\ restarts < MaxRestarts
  /\ restarts' = restarts + 1
  /\ registry' = {}
  /\ UNCHANGED <<pointer, started, ui>>

-----------------------------------------------------------------------------
Person ==
  \/ StartDemo \/ RetryRehydrate \/ Verify \/ Explain \/ ResetExplain
  \/ RunControllerAgain \/ Reload
  \/ \E d \in Datasets : SelectDataset(d)
  \/ \E page \in DetailPages : SelectDecision(page)
  \/ \E page \in Pages : Navigate(page)

Answers ==
  \/ \E c \in ui.starts : ServeStart(c) \/ StartAnswered(c) \/ StartFailed(c)
  \/ \E c \in ui.lookup : ServeLookup(c) \/ LookupAnswered(c) \/ LookupLost(c)
  \/ \E v \in Views : \E k \in ui.views[v].asked : ViewAnswered(v, k) \/ ViewFailed(v, k)

Next == Person \/ Answers \/ Restart

Spec == Init /\ [][Next]_vars

-----------------------------------------------------------------------------
(* Properties                                                              *)

\* The late answer of the remembered run's lookup (RunContext.tsx:212 sets
\* run whatever happened meanwhile) can never replace a run: nothing cancels
\* it when a start is pressed, but no page offers a start until it is in.
LookupAlone == ui.lookup # {} => ui.run = None /\ ui.starts = {}

\* A reload comes back to the run on screen: the pointer names it, through
\* overlapping starts, failed ones and servers that forgot it.
ReloadReturns == ui.run # None => pointer = ui.run

\* The remembered run is safe on both sides of a reload: written as it came,
\* and never laid over a later one.
RememberedIsShown == LookupAlone /\ ReloadReturns

\* Whatever the hooks with an effect or a keyed owner hold, or still wait
\* for, is about the run (and decision) on screen; verify has neither.
ShownIsCurrent ==
  \A v \in Views \ {"verify"} :
    LET key == IF v = "explain" THEN DetailKey(ui) ELSE KeyOf(v, ui)
    IN  ui.views[v].asked \cup {ui.views[v].data} \subseteq {None, key}

\* "Nothing on this page is shown until the recomputation has actually been
\* run against this run's chain" (AuditLogs.tsx): the verdict is the run's.
VerdictIsOfShownRun == ui.views["verify"].data \in {None, ui.run}

\* "a decision_id belongs to the run that minted it" (RunContext.tsx): the
\* selected decision is never carried to a run that does not hold it.
SelectionIsOfRun == ui.run # None => ui.selected \in {None, ui.run}

\* "the empty state means what it says: there is no run and none is coming"
\* (RunGate.tsx): the ledger page's empty state with a start under way.
EmptyMeansNoneComing ==
  ui.page = "audit" /\ Gate(ui) = None /\ ui.run = None => ui.starts = {}

\* "this run's own loading/error take over from here" (RunContext.tsx): with
\* the answer of a start the errors of the requests before it are gone.
StartTakesOver ==
  [][(\E c \in ui.starts : StartAnswered(c)) => ~Error(ui')]_vars

\* The same of a start that failed: the Command Center, which has no run to
\* show, shows the error and not the first visit's start screen.
FailedStartShown ==
  ui.page = "command_center" /\ Gate(ui) = None /\ ui.run = None /\ ~Loading(ui)
    => ~ui.create.error
=============================================================================
