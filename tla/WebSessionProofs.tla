-------------------------- MODULE WebSessionProofs --------------------------
(***************************************************************************)
(* For every list of datasets, any number of starts and any number of      *)
(* restarts of the server: the remembered run is the one shown, and what   *)
(* the hooks hold is about what is shown.                                  *)
(*                                                                         *)
(* Neither is inductive alone: that a lookup's answer never lands on a run *)
(* needs that the gate is shut while it is out, and that nothing was under *)
(* way when it was sent; that a panel's trace is the run's needs every     *)
(* view's key to be settled before the panel's own is looked at.           *)
(*                                                                         *)
(* For every sealed run, every prose a provider may write and every number *)
(* of retries: the reply to a request to explain a decision is honest, as  *)
(* an answer and as a refusal.  It is computed once, of the calls made;    *)
(* what makes it honest is kept by the attempts: only the last call can    *)
(* have been accepted, an accepted answer was grounded in the evidence of  *)
(* the decision asked for, and after a call that reached no provider the   *)
(* last failure is its own.                                                *)
(***************************************************************************)
EXTENDS WebSession, Explain, WellFoundedInduction, TLAPS

Runs == Datasets \cup {None}

DetailKeys == {<<page, run, selected>> : page \in DetailPages, run \in Datasets, selected \in Datasets}

ApiStates == [asked : SUBSET (Runs \cup DetailKeys), data : Runs \cup DetailKeys,
              loading : BOOLEAN, error : BOOLEAN]

Starts  == [n : Nat, id : Datasets, reply : {"waiting", "created"}]
Lookups == [id : Datasets,
            reply : {"waiting", "found", "not_found", "api_mismatch", "unexpected_response"}]

UIs == [page : Pages, run : Runs, selected : Runs, dataset : Datasets, rehydrate : Kinds,
        lookup : SUBSET Lookups, create : [loading : BOOLEAN, error : BOOLEAN],
        starts : SUBSET Starts, views : [Views -> ApiStates]]

TypeOK ==
  /\ registry \subseteq Datasets
  /\ pointer \in Runs
  /\ started \in Nat
  /\ ui \in UIs

\* While a lookup is out the gate is shut; behind a shut gate there is no run and
\* none is coming.
GateHolds ==
  /\ ui.lookup # {} => ui.rehydrate = "restoring"
  /\ ui.rehydrate \notin {"idle", "restored"} => ui.run = None /\ ui.starts = {}

\* A lookup asks for what the pointer names.
LookupOfPointer == \A c \in ui.lookup : c.id = pointer

Key(v, u) == IF v = "explain" THEN DetailKey(u) ELSE KeyOf(v, u)

Keyed == Views \ {"verify"}

\* A view of state u is about nothing but k.
About(u, v, k) == u.views[v].asked \cup {u.views[v].data} \subseteq {None, k}

IInv ==
  /\ TypeOK
  /\ GateHolds
  /\ LookupOfPointer
  /\ ReloadReturns
  /\ ShownIsCurrent

-----------------------------------------------------------------------------
(* Keys and effects                                                        *)

\* What a key reads of the state.
LEMMA KeysDepend ==
  ASSUME NEW u, NEW w, w.page = u.page, w.run = u.run, w.selected = u.selected,
         w.rehydrate = u.rehydrate, Error(w) <=> Error(u), NEW v \in Keyed
  PROVE  Key(v, w) = Key(v, u)
<1>1. DetailKey(w) = DetailKey(u)
  BY DEF DetailKey
<1>2. PanelMounted(w) <=> PanelMounted(u)
  BY DEF PanelMounted, Gate
<1> QED BY <1>1, <1>2 DEF Key, KeyOf, Keyed, Views, RunViews

LEMMA KeyType ==
  ASSUME NEW u \in UIs, NEW v \in Keyed
  PROVE  Key(v, u) \in Runs \cup DetailKeys
<1>1. DetailKey(u) \in Runs \cup DetailKeys
  BY DEF DetailKey, UIs, Runs, DetailKeys
<1>2. u.run \in Runs /\ None \in Runs
  BY DEF UIs, Runs
<1> QED BY <1>1, <1>2 DEF Key, KeyOf, Keyed, Views, RunViews

LEMMA IdleType == Idle \in ApiStates /\ Idle.asked = {} /\ Idle.data = None
BY DEF Idle, ApiStates, Runs

LEMMA AskType ==
  ASSUME NEW a, NEW k \in Runs \cup DetailKeys
  PROVE  Ask(a, k) \in ApiStates /\ Ask(a, k).asked = {k} /\ Ask(a, k).data = None
BY DEF Ask, ApiStates, Runs

\* An effect leaves a view about its new key, if it was about its old one.
LEMMA EffectAbout ==
  ASSUME NEW old \in UIs, NEW new \in UIs, NEW v \in Keyed \ {"explain"},
         About(new, v, KeyOf(v, old))
  PROVE  /\ Effect(v, old, new) \in ApiStates
         /\ Effect(v, old, new).asked \cup {Effect(v, old, new).data}
              \subseteq {None, KeyOf(v, new)}
<1>1. KeyOf(v, new) \in Runs \cup DetailKeys
  <2>1. Key(v, new) \in Runs \cup DetailKeys
    BY KeyType
  <2> QED BY <2>1 DEF Key
<1>2. CASE KeyOf(v, new) = KeyOf(v, old)
  BY <1>2 DEF Effect, About, UIs, Keyed
<1>3. CASE KeyOf(v, new) # KeyOf(v, old) /\ KeyOf(v, new) = None
  BY <1>3, IdleType DEF Effect
<1>4. CASE KeyOf(v, new) # KeyOf(v, old) /\ KeyOf(v, new) # None
  <2>1. Effect(v, old, new) = Ask(new.views[v], KeyOf(v, new))
    BY <1>4 DEF Effect
  <2> QED BY <1>1, <2>1, AskType
<1> QED BY <1>2, <1>3, <1>4

\* Rendering new after old changes nothing but the views, and leaves every keyed
\* view about what is shown, if in new it is about what was.
LEMMA CommitAbout ==
  ASSUME NEW old \in UIs, NEW new \in UIs,
         \A v \in Keyed : About(new, v, Key(v, old))
  PROVE  LET u == Commit(old, new) IN
         /\ u \in UIs
         /\ u.page = new.page /\ u.run = new.run /\ u.selected = new.selected
         /\ u.dataset = new.dataset /\ u.rehydrate = new.rehydrate
         /\ u.lookup = new.lookup /\ u.create = new.create /\ u.starts = new.starts
         /\ \A v \in Keyed : About(u, v, Key(v, u))
<1> DEFINE closed   == Effect("close", old, new)
           listed   == Effect("exceptions", old, new)
           opened   == Effect("detail", old, new)
           fetched  == [new EXCEPT !.views["close"] = closed,
                                   !.views["exceptions"] = listed,
                                   !.views["detail"] = opened]
           same     == DetailKey(new) = DetailKey(old) /\ ExplainMounted(fetched)
           panel    == Effect("panel", old, fetched)
           explain  == IF same THEN fetched.views["explain"] ELSE Idle
           verify   == IF new.page = old.page THEN fetched.views["verify"] ELSE Idle
           u        == Commit(old, new)
<1>1. /\ closed \in ApiStates /\ closed.asked \cup {closed.data} \subseteq {None, KeyOf("close", new)}
      /\ listed \in ApiStates /\ listed.asked \cup {listed.data} \subseteq {None, KeyOf("exceptions", new)}
      /\ opened \in ApiStates /\ opened.asked \cup {opened.data} \subseteq {None, KeyOf("detail", new)}
  <2>1. \A v \in {"close", "exceptions", "detail"} :
          v \in Keyed \ {"explain"} /\ About(new, v, KeyOf(v, old))
    BY DEF Key, Keyed, Views
  <2> QED BY <2>1, EffectAbout
<1> HIDE DEF closed, listed, opened
<1>2. /\ fetched \in UIs
      /\ fetched.page = new.page /\ fetched.run = new.run /\ fetched.selected = new.selected
      /\ fetched.dataset = new.dataset /\ fetched.rehydrate = new.rehydrate
      /\ fetched.lookup = new.lookup /\ fetched.create = new.create
      /\ fetched.starts = new.starts
      /\ fetched.views["close"] = closed /\ fetched.views["exceptions"] = listed
      /\ fetched.views["detail"] = opened
      /\ \A v \in {"explain", "panel", "verify"} : fetched.views[v] = new.views[v]
  BY <1>1 DEF UIs, Views
<1> HIDE DEF fetched
<1>3. panel \in ApiStates /\ panel.asked \cup {panel.data} \subseteq {None, KeyOf("panel", fetched)}
  <2>1. "panel" \in Keyed \ {"explain"} /\ About(new, "panel", Key("panel", old))
    BY DEF Keyed, Views
  <2>2. About(fetched, "panel", KeyOf("panel", old))
    BY <1>2, <2>1 DEF About, Key
  <2> QED BY <1>2, <2>1, <2>2, EffectAbout
<1>4. explain \in ApiStates /\ explain.asked \cup {explain.data} \subseteq {None, DetailKey(new)}
  <2>1. "explain" \in Keyed /\ About(new, "explain", Key("explain", old))
    BY DEF Keyed, Views
  <2>2. new.views["explain"].asked \cup {new.views["explain"].data} \subseteq {None, DetailKey(old)}
    BY <2>1 DEF About, Key
  <2>3. fetched.views["explain"] \in ApiStates
    BY <1>2 DEF UIs, Views
  <2>4. CASE same
    BY <1>2, <2>2, <2>3, <2>4
  <2>5. CASE ~same
    BY <2>5, IdleType
  <2> QED BY <2>4, <2>5
<1>5. verify \in ApiStates
  BY <1>2, IdleType DEF UIs, Views
<1>6. u = [fetched EXCEPT !.views["panel"] = panel, !.views["explain"] = explain,
                          !.views["verify"] = verify]
  <2>1. "panel" # "explain" /\ "panel" # "verify" /\ "explain" # "verify"
    OBVIOUS
  <2>2. fetched \in UIs
    BY <1>2
  <2> QED BY <2>1, <2>2 DEF Commit, fetched, closed, listed, opened, UIs, Views
<1> HIDE DEF panel, explain, verify, u
<1>7. /\ u \in UIs
      /\ u.page = fetched.page /\ u.run = fetched.run /\ u.selected = fetched.selected
      /\ u.dataset = fetched.dataset /\ u.rehydrate = fetched.rehydrate
      /\ u.lookup = fetched.lookup /\ u.create = fetched.create /\ u.starts = fetched.starts
      /\ u.views["panel"] = panel /\ u.views["explain"] = explain
      /\ \A v \in {"close", "exceptions", "detail"} : u.views[v] = fetched.views[v]
  BY <1>2, <1>3, <1>4, <1>5, <1>6 DEF UIs, Views
<1>8. Error(u) <=> Error(fetched)
  BY <1>7 DEF Error, RunViews
<1>9. \A v \in Keyed : Key(v, u) = Key(v, fetched)
  BY <1>7, <1>8, KeysDepend
<1>10. /\ KeyOf("close", new) = KeyOf("close", fetched)
       /\ KeyOf("exceptions", new) = KeyOf("exceptions", fetched)
       /\ KeyOf("detail", new) = KeyOf("detail", fetched)
       /\ DetailKey(new) = DetailKey(fetched)
  BY <1>2 DEF KeyOf, DetailKey, RunViews
<1>11. ASSUME NEW v \in Keyed PROVE About(u, v, Key(v, u))
  <2>1. CASE v = "close"
    BY <1>1, <1>2, <1>7, <1>9, <1>10, <2>1 DEF About, Key
  <2>2. CASE v = "exceptions"
    BY <1>1, <1>2, <1>7, <1>9, <1>10, <2>2 DEF About, Key
  <2>3. CASE v = "detail"
    BY <1>1, <1>2, <1>7, <1>9, <1>10, <2>3 DEF About, Key
  <2>4. CASE v = "panel"
    BY <1>3, <1>7, <1>9, <2>4 DEF About, Key
  <2>5. CASE v = "explain"
    BY <1>4, <1>7, <1>9, <1>10, <2>5 DEF About, Key
  <2> QED BY <2>1, <2>2, <2>3, <2>4, <2>5 DEF Keyed, Views
<1> QED BY <1>2, <1>7, <1>11 DEF u
-----------------------------------------------------------------------------
(* What a render, and what an answered view, leave of the invariant        *)

LEMMA ShownAbout == ShownIsCurrent <=> \A v \in Keyed : About(ui, v, Key(v, ui))
BY DEF ShownIsCurrent, About, Key, Keyed

LEMMA RenderStep ==
  ASSUME IInv, NEW new \in UIs, Render(new),
         \A v \in Keyed : About(new, v, Key(v, ui)),
         registry' \subseteq Datasets, pointer' \in Runs, started' \in Nat,
         new.lookup # {} => new.rehydrate = "restoring",
         new.rehydrate \notin {"idle", "restored"} => new.run = None /\ new.starts = {},
         \A c \in new.lookup : c.id = pointer',
         new.run # None => pointer' = new.run
  PROVE  IInv'
<1>1. ui \in UIs
  BY DEF IInv, TypeOK
<1>2. ui' = Commit(ui, new)
  BY DEF Render
<1>3. /\ ui' \in UIs
      /\ ui'.run = new.run /\ ui'.rehydrate = new.rehydrate
      /\ ui'.lookup = new.lookup /\ ui'.starts = new.starts
      /\ \A v \in Keyed : About(ui', v, Key(v, ui'))
  BY <1>1, <1>2, CommitAbout
<1>4. TypeOK'
  BY <1>3 DEF TypeOK
<1>5. GateHolds' /\ LookupOfPointer' /\ ReloadReturns'
  BY <1>3 DEF GateHolds, LookupOfPointer, ReloadReturns
<1>6. ShownIsCurrent'
  BY <1>3 DEF ShownIsCurrent, About, Key, Keyed
<1> QED BY <1>4, <1>5, <1>6 DEF IInv

\* A step that leaves the views to their effects.
LEMMA ViewsKept ==
  ASSUME IInv, NEW new, new.views = ui.views
  PROVE  \A v \in Keyed : About(new, v, Key(v, ui))
BY ShownAbout DEF IInv, About

\* A view pressed, answered or failed, about what is shown.
LEMMA ViewStep ==
  ASSUME IInv, NEW v \in Views, NEW a \in ApiStates,
         Render([ui EXCEPT !.views[v] = a]),
         v \in Keyed => a.asked \cup {a.data} \subseteq {None, Key(v, ui)},
         UNCHANGED <<registry, restarts, pointer, started>>
  PROVE  IInv'
<1> DEFINE new == [ui EXCEPT !.views[v] = a]
<1>1. ui \in UIs
  BY DEF IInv, TypeOK
<1>2. /\ new \in UIs
      /\ new.run = ui.run /\ new.rehydrate = ui.rehydrate
      /\ new.lookup = ui.lookup /\ new.starts = ui.starts
      /\ new.views[v] = a
      /\ \A w \in Views \ {v} : new.views[w] = ui.views[w]
  BY <1>1 DEF UIs
<1>3. ASSUME NEW w \in Keyed PROVE About(new, w, Key(w, ui))
  <2>1. CASE w = v
    BY <1>2, <2>1 DEF About
  <2>2. CASE w # v
    <3>1. w \in Views \ {v} /\ About(ui, w, Key(w, ui))
      BY <2>2, ShownAbout DEF IInv, Keyed
    <3> QED BY <1>2, <3>1 DEF About
  <2> QED BY <2>1, <2>2
<1>4. Render(new)
  OBVIOUS
<1> HIDE DEF new
<1> QED BY <1>2, <1>3, <1>4, RenderStep
     DEF IInv, TypeOK, GateHolds, LookupOfPointer, ReloadReturns

\* A step of the server that touches neither a key nor a view.
LEMMA ServedStep ==
  ASSUME IInv, ui' \in UIs, registry' \subseteq Datasets, pointer' = pointer,
         started' = started,
         ui'.page = ui.page, ui'.run = ui.run, ui'.selected = ui.selected,
         ui'.rehydrate = ui.rehydrate, ui'.create = ui.create, ui'.views = ui.views,
         ui'.lookup # {} => ui.lookup # {},
         ui'.starts # {} => ui.starts # {},
         \A c \in ui'.lookup : c.id = pointer
  PROVE  IInv'
<1>1. Error(ui') <=> Error(ui)
  BY DEF Error
<1>2. \A v \in Keyed : Key(v, ui') = Key(v, ui)
  BY <1>1, KeysDepend
<1>3. ShownIsCurrent'
  <2>1. \A v \in Keyed : About(ui, v, Key(v, ui))
    BY ShownAbout DEF IInv
  <2>2. \A v \in Keyed : About(ui', v, Key(v, ui'))
    BY <1>2, <2>1 DEF About
  <2> QED BY <2>2 DEF ShownIsCurrent, About, Key, Keyed
<1>4. TypeOK' /\ GateHolds' /\ LookupOfPointer' /\ ReloadReturns'
  BY DEF IInv, TypeOK, GateHolds, LookupOfPointer, ReloadReturns
<1> QED BY <1>3, <1>4 DEF IInv

-----------------------------------------------------------------------------
(* The steps                                                               *)

\* A page load asks for nothing but the pointer's run, and shows nothing.
LEMMA LoadedHolds ==
  ASSUME NEW p \in Runs, NEW page \in Pages
  PROVE  LET u == Loaded(p, page) IN
         /\ u \in UIs
         /\ u.run = None /\ u.starts = {}
         /\ u.lookup # {} => u.rehydrate = "restoring"
         /\ \A c \in u.lookup : c.id = p
         /\ \A v \in Keyed : About(u, v, Key(v, u))
<1> DEFINE u == Loaded(p, page)
<1>1. Default \in Datasets /\ (p # None => p \in Datasets)
  BY WebAssumption DEF Runs
<1>2. u \in UIs
  <2>1. \A v \in Views : u.views[v] = Idle /\ u.views[v] \in ApiStates
    BY IdleType DEF Loaded
  <2>2. u.lookup \subseteq Lookups
    BY <1>1 DEF Loaded, Lookups
  <2>3. u.rehydrate \in Kinds
    BY DEF Loaded, Kinds
  <2>4. u.run \in Runs /\ u.selected \in Runs /\ u.dataset \in Datasets
    BY <1>1 DEF Loaded, Runs
  <2>5. u.page \in Pages /\ u.starts \subseteq Starts
        /\ u.create \in [loading : BOOLEAN, error : BOOLEAN]
    BY DEF Loaded
  <2>6. u.views \in [Views -> ApiStates]
    BY <2>1 DEF Loaded
  <2> QED BY <2>2, <2>3, <2>4, <2>5, <2>6 DEF UIs, Loaded
<1>3. \A v \in Keyed : About(u, v, Key(v, u))
  BY IdleType DEF Loaded, About, Keyed
<1>4. /\ u.run = None /\ u.starts = {}
      /\ u.lookup # {} => u.rehydrate = "restoring"
      /\ \A c \in u.lookup : c.id = p
  BY DEF Loaded
<1> QED BY <1>2, <1>3, <1>4

LEMMA InitIInv == Init => IInv
<1> SUFFICES ASSUME Init PROVE IInv
  OBVIOUS
<1>1. PICK page \in Pages : ui = Loaded(None, page)
  BY DEF Init
<1>2. None \in Runs
  BY DEF Runs
<1>3. ShownIsCurrent
  BY <1>1, <1>2, LoadedHolds, ShownAbout
<1> QED BY <1>1, <1>2, <1>3, LoadedHolds
     DEF IInv, Init, TypeOK, GateHolds, LookupOfPointer, ReloadReturns

\* The person's steps, one by one.
LEMMA PersonStep == IInv /\ Person => IInv'
<1> SUFFICES ASSUME IInv, Person PROVE IInv'
  OBVIOUS
<1> USE DEF Render
<1>0. /\ ui \in UIs /\ registry \subseteq Datasets /\ pointer \in Runs /\ started \in Nat
      /\ GateHolds /\ LookupOfPointer /\ ReloadReturns /\ ShownIsCurrent
  BY DEF IInv, TypeOK
<1>1. CASE StartDemo
  <2> DEFINE new == [ui EXCEPT
                       !.selected = None, !.rehydrate = "idle",
                       !.create = [loading |-> TRUE, error |-> FALSE],
                       !.starts = @ \cup {[n |-> started, id |-> ui.dataset,
                                           reply |-> "waiting"]}]
  <2>1. Render(new) /\ UNCHANGED <<registry, pointer>> /\ started' = started + 1
    BY <1>1 DEF StartDemo
  <2>2. ui.rehydrate # "restoring"
    BY <1>1, WebAssumption DEF StartDemo, StartOffered, Gate, Kinds
  <2>3. new \in UIs
    <3>1. [n |-> started, id |-> ui.dataset, reply |-> "waiting"] \in Starts
      BY <1>0 DEF UIs, Starts
    <3>2. None \in Runs /\ "idle" \in Kinds
      BY DEF Runs, Kinds
    <3> QED BY <1>0, <3>1, <3>2 DEF UIs
  <2>4. new.views = ui.views /\ new.run = ui.run /\ new.lookup = ui.lookup
        /\ new.rehydrate = "idle"
    BY <1>0 DEF UIs
  <2>5. ui.lookup = {}
    BY <1>0, <2>2 DEF GateHolds
  <2> HIDE DEF new
  <2> QED BY <1>0, <2>1, <2>3, <2>4, <2>5, ViewsKept, RenderStep DEF ReloadReturns
<1>2. CASE RetryRehydrate
  <2> DEFINE new == [ui EXCEPT !.rehydrate = "restoring",
                               !.lookup = {[id |-> pointer, reply |-> "waiting"]}]
  <2>1. Render(new) /\ UNCHANGED <<registry, pointer, started>> /\ pointer # None
    BY <1>2 DEF RetryRehydrate
  <2>2. ui.run = None /\ ui.starts = {}
    <3>1. ui.rehydrate \notin {"idle", "restored"}
      BY <1>2, WebAssumption DEF RetryRehydrate, Gate, Kinds
    <3> QED BY <1>0, <3>1 DEF GateHolds
  <2>3. new \in UIs
    <3>1. [id |-> pointer, reply |-> "waiting"] \in Lookups
      BY <1>0, <2>1 DEF Lookups, Runs
    <3>2. "restoring" \in Kinds
      BY DEF Kinds
    <3> QED BY <1>0, <3>1, <3>2 DEF UIs
  <2>4. /\ new.views = ui.views /\ new.run = ui.run /\ new.starts = ui.starts
        /\ new.rehydrate = "restoring"
        /\ \A c \in new.lookup : c.id = pointer
    BY <1>0 DEF UIs
  <2> HIDE DEF new
  <2> QED BY <1>0, <2>1, <2>2, <2>3, <2>4, ViewsKept, RenderStep
<1>3. CASE Verify
  <2>1. Render([ui EXCEPT !.views["verify"] = Press(ui.views["verify"], ui.run)])
        /\ UNCHANGED <<registry, restarts, pointer, started>>
    BY <1>3 DEF Verify
  <2>2. Press(ui.views["verify"], ui.run) \in ApiStates
    BY <1>0 DEF Press, UIs, ApiStates, Views, Runs
  <2>3. "verify" \in Views /\ "verify" \notin Keyed
    BY DEF Views, Keyed
  <2> QED BY <2>1, <2>2, <2>3, ViewStep
<1>4. CASE Explain
  <2>1. Render([ui EXCEPT !.views["explain"] = Press(ui.views["explain"], DetailKey(ui))])
        /\ UNCHANGED <<registry, restarts, pointer, started>>
        /\ ui.views["explain"] = Idle
    BY <1>4 DEF Explain
  <2>2. "explain" \in Keyed /\ "explain" \in Views /\ Key("explain", ui) = DetailKey(ui)
    BY DEF Keyed, Views, Key
  <2>3. DetailKey(ui) \in Runs \cup DetailKeys
    BY <1>0, <2>2, KeyType
  <2>4. Press(ui.views["explain"], DetailKey(ui)) \in ApiStates
    BY <2>1, <2>3, IdleType DEF Press, ApiStates, Runs
  <2>5. Press(ui.views["explain"], DetailKey(ui)).asked = {DetailKey(ui)}
        /\ Press(ui.views["explain"], DetailKey(ui)).data = None
    BY <2>1, IdleType DEF Press
  <2> QED BY <2>1, <2>2, <2>4, <2>5, ViewStep
<1>5. CASE ResetExplain
  <2>1. Render([ui EXCEPT !.views["explain"] = Idle])
        /\ UNCHANGED <<registry, restarts, pointer, started>>
    BY <1>5 DEF ResetExplain
  <2>2. "explain" \in Views
    BY DEF Views
  <2> QED BY <2>1, <2>2, IdleType, ViewStep
<1>6. CASE RunControllerAgain
  <2> DEFINE a == PressKeeping(ui.views["panel"], ui.run)
  <2>1. Render([ui EXCEPT !.views["panel"] = a])
        /\ UNCHANGED <<registry, restarts, pointer, started>>
    BY <1>6 DEF RunControllerAgain
  <2>2. "panel" \in Keyed /\ "panel" \in Views /\ Key("panel", ui) = ui.run
    BY <1>6 DEF RunControllerAgain, Keyed, Views, Key, KeyOf, RunViews
  <2>3. /\ ui.views["panel"] \in ApiStates
        /\ ui.views["panel"].asked \cup {ui.views["panel"].data} \subseteq {None, ui.run}
    BY <1>0, <2>2, ShownAbout DEF UIs, About
  <2>4. a \in ApiStates /\ a.asked = ui.views["panel"].asked \cup {ui.run}
        /\ a.data = ui.views["panel"].data
    BY <1>0, <2>3 DEF PressKeeping, Press, ApiStates, UIs
  <2> HIDE DEF a
  <2> QED BY <2>1, <2>2, <2>3, <2>4, ViewStep
<1>7. CASE Reload
  <2>1. ui' = Loaded(pointer, ui.page) /\ UNCHANGED <<pointer, started>>
    BY <1>7 DEF Reload
  <2>2. registry' \subseteq Datasets
    BY <1>0, <1>7 DEF Reload, UIs, Starts
  <2>3. ui.page \in Pages
    BY <1>0 DEF UIs
  <2>4. /\ ui' \in UIs
        /\ ui'.run = None /\ ui'.starts = {}
        /\ ui'.lookup # {} => ui'.rehydrate = "restoring"
        /\ \A c \in ui'.lookup : c.id = pointer
        /\ \A v \in Keyed : About(ui', v, Key(v, ui'))
    BY <1>0, <2>1, <2>3, LoadedHolds
  <2>5. ShownIsCurrent'
    BY <2>4 DEF ShownIsCurrent, About, Key, Keyed
  <2> QED BY <1>0, <2>1, <2>2, <2>4, <2>5
       DEF IInv, TypeOK, GateHolds, LookupOfPointer, ReloadReturns
<1>8. CASE \E d \in Datasets : SelectDataset(d)
  <2>1. PICK d \in Datasets : SelectDataset(d)
    BY <1>8
  <2> DEFINE new == [ui EXCEPT !.dataset = d]
  <2>2. Render(new) /\ UNCHANGED <<registry, pointer, started>>
    BY <2>1 DEF SelectDataset
  <2>3. /\ new \in UIs /\ new.views = ui.views /\ new.run = ui.run
        /\ new.starts = ui.starts /\ new.lookup = ui.lookup /\ new.rehydrate = ui.rehydrate
    BY <1>0 DEF UIs
  <2> HIDE DEF new
  <2> QED BY <1>0, <2>2, <2>3, ViewsKept, RenderStep
       DEF GateHolds, LookupOfPointer, ReloadReturns
<1>9. CASE \E page \in DetailPages : SelectDecision(page)
  <2>1. PICK page \in DetailPages : SelectDecision(page)
    BY <1>9
  <2> DEFINE new == [ui EXCEPT !.selected = ui.views["exceptions"].data, !.page = page]
  <2>2. Render(new) /\ UNCHANGED <<registry, pointer, started>>
    BY <2>1 DEF SelectDecision
  <2>3. ui.views["exceptions"].data \in Runs
    <3>1. "exceptions" \in Keyed /\ Key("exceptions", ui) = ui.run
      BY DEF Keyed, Views, Key, KeyOf, RunViews
    <3>2. ui.views["exceptions"].data \in {None, ui.run}
      BY <1>0, <3>1, ShownAbout DEF About
    <3> QED BY <1>0, <3>2 DEF UIs, Runs
  <2>4. /\ new \in UIs /\ new.views = ui.views /\ new.run = ui.run
        /\ new.starts = ui.starts /\ new.lookup = ui.lookup /\ new.rehydrate = ui.rehydrate
    BY <1>0, <2>3 DEF UIs, Pages
  <2> HIDE DEF new
  <2> QED BY <1>0, <2>2, <2>4, ViewsKept, RenderStep
       DEF GateHolds, LookupOfPointer, ReloadReturns
<1>10. CASE \E page \in Pages : Navigate(page)
  <2>1. PICK page \in Pages : Navigate(page)
    BY <1>10
  <2> DEFINE new == [ui EXCEPT !.page = page]
  <2>2. Render(new) /\ UNCHANGED <<registry, pointer, started>>
    BY <2>1 DEF Navigate
  <2>3. /\ new \in UIs /\ new.views = ui.views /\ new.run = ui.run
        /\ new.starts = ui.starts /\ new.lookup = ui.lookup /\ new.rehydrate = ui.rehydrate
    BY <1>0 DEF UIs
  <2> HIDE DEF new
  <2> QED BY <1>0, <2>2, <2>3, ViewsKept, RenderStep
       DEF GateHolds, LookupOfPointer, ReloadReturns
<1> QED BY <1>1, <1>2, <1>3, <1>4, <1>5, <1>6, <1>7, <1>8, <1>9, <1>10 DEF Person

\* The server's steps and the answers, late or lost.
LEMMA AnswersStep == IInv /\ Answers => IInv'
<1> SUFFICES ASSUME IInv, Answers PROVE IInv'
  OBVIOUS
<1>0. /\ ui \in UIs /\ registry \subseteq Datasets /\ pointer \in Runs /\ started \in Nat
      /\ GateHolds /\ LookupOfPointer /\ ReloadReturns /\ ShownIsCurrent
  BY DEF IInv, TypeOK
<1>1. ASSUME NEW c \in ui.starts, ServeStart(c) PROVE IInv'
  <2>1. c \in Starts
    BY <1>0 DEF UIs
  <2>2. ui' = [ui EXCEPT !.starts = (ui.starts \ {c}) \cup {[c EXCEPT !.reply = "created"]}]
        /\ registry' = registry \cup {c.id} /\ UNCHANGED <<pointer, started>>
    BY <1>1 DEF ServeStart
  <2>3. [c EXCEPT !.reply = "created"] \in Starts
    BY <2>1 DEF Starts
  <2>4. ui' \in UIs
    BY <1>0, <2>2, <2>3 DEF UIs
  <2>5. registry' \subseteq Datasets
    BY <1>0, <2>1, <2>2 DEF Starts
  <2>6. /\ ui'.page = ui.page /\ ui'.run = ui.run /\ ui'.selected = ui.selected
        /\ ui'.rehydrate = ui.rehydrate /\ ui'.create = ui.create /\ ui'.views = ui.views
        /\ ui'.lookup = ui.lookup /\ ui.starts # {}
    BY <1>0, <1>1, <2>2 DEF UIs
  <2> QED BY <1>0, <2>2, <2>4, <2>5, <2>6, ServedStep DEF LookupOfPointer
<1>2. ASSUME NEW c \in ui.starts, StartAnswered(c) PROVE IInv'
  <2> DEFINE new == [ui EXCEPT !.starts = @ \ {c}, !.run = c.id,
                               !.create = [loading |-> FALSE, error |-> FALSE]]
  <2>1. Render(new) /\ pointer' = c.id /\ UNCHANGED <<registry, started>>
    BY <1>2 DEF StartAnswered
  <2>2. c.id \in Datasets
    BY <1>0, <1>2 DEF UIs, Starts
  <2>3. ui.rehydrate \in {"idle", "restored"} /\ ui.lookup = {}
    BY <1>0, <1>2 DEF GateHolds
  <2>4. /\ new \in UIs /\ new.views = ui.views /\ new.run = c.id
        /\ new.lookup = ui.lookup /\ new.rehydrate = ui.rehydrate
    BY <1>0, <2>2 DEF UIs, Runs
  <2>5. pointer' \in Runs
    BY <2>1, <2>2 DEF Runs
  <2> HIDE DEF new
  <2> QED BY <1>0, <2>1, <2>3, <2>4, <2>5, ViewsKept, RenderStep
<1>3. ASSUME NEW c \in ui.starts, StartFailed(c) PROVE IInv'
  <2> DEFINE new == [ui EXCEPT !.starts = @ \ {c}, !.create = [loading |-> FALSE, error |-> TRUE]]
  <2>1. Render(new) /\ UNCHANGED <<registry, pointer, started>>
    BY <1>3 DEF StartFailed
  <2>2. /\ new \in UIs /\ new.views = ui.views /\ new.run = ui.run
        /\ new.starts \subseteq ui.starts /\ new.lookup = ui.lookup
        /\ new.rehydrate = ui.rehydrate
    BY <1>0 DEF UIs
  <2> HIDE DEF new
  <2> QED BY <1>0, <2>1, <2>2, ViewsKept, RenderStep
       DEF GateHolds, LookupOfPointer, ReloadReturns
<1>4. ASSUME NEW c \in ui.lookup, ServeLookup(c) PROVE IInv'
  <2>1. PICK answer \in {"found", "not_found", "api_mismatch", "unexpected_response"} :
          ui' = [ui EXCEPT !.lookup = {[c EXCEPT !.reply = answer]}]
    BY <1>4 DEF ServeLookup
  <2>2. c \in Lookups /\ c.id = pointer
    BY <1>0, <1>4 DEF UIs, LookupOfPointer
  <2>3. [c EXCEPT !.reply = answer] \in Lookups /\ [c EXCEPT !.reply = answer].id = pointer
    BY <2>1, <2>2 DEF Lookups
  <2>4. ui' \in UIs
    BY <1>0, <2>1, <2>3 DEF UIs
  <2>5. /\ ui'.page = ui.page /\ ui'.run = ui.run /\ ui'.selected = ui.selected
        /\ ui'.rehydrate = ui.rehydrate /\ ui'.create = ui.create /\ ui'.views = ui.views
        /\ ui'.starts = ui.starts /\ ui.lookup # {}
        /\ \A d \in ui'.lookup : d.id = pointer
    BY <1>0, <1>4, <2>1, <2>3 DEF UIs
  <2>6. UNCHANGED <<registry, pointer, started>>
    BY <1>4 DEF ServeLookup
  <2> QED BY <1>0, <2>4, <2>5, <2>6, ServedStep
<1>5. ASSUME NEW c \in ui.lookup, LookupAnswered(c) PROVE IInv'
  <2>1. ui.run = None /\ ui.starts = {}
    BY <1>0, <1>5 DEF GateHolds
  <2>2. c \in Lookups /\ c.id = pointer /\ UNCHANGED <<registry, started>>
    BY <1>0, <1>5 DEF UIs, LookupOfPointer, LookupAnswered
  <2>3. CASE c.reply = "found"
    <3> DEFINE new == [ui EXCEPT !.lookup = {}, !.run = c.id, !.dataset = c.id,
                                 !.rehydrate = "restored"]
    <3>1. Render(new) /\ pointer' = pointer
      BY <1>5, <2>3 DEF LookupAnswered
    <3>2. /\ new \in UIs /\ new.views = ui.views /\ new.run = pointer
          /\ new.lookup = {} /\ new.rehydrate = "restored"
      BY <1>0, <2>2 DEF UIs, Lookups, Runs, Kinds
    <3> HIDE DEF new
    <3> QED BY <1>0, <2>2, <3>1, <3>2, ViewsKept, RenderStep
  <2>4. CASE c.reply # "found"
    <3> DEFINE new == [ui EXCEPT !.lookup = {}, !.rehydrate = c.reply]
    <3>1. Render(new) /\ pointer' \in Runs
      BY <1>0, <1>5, <2>4 DEF LookupAnswered, Runs
    <3>2. c.reply \in Kinds
      BY <1>5, <2>2, <2>4 DEF LookupAnswered, Lookups, Kinds
    <3>3. /\ new \in UIs /\ new.views = ui.views /\ new.run = None
          /\ new.lookup = {} /\ new.starts = {}
      BY <1>0, <2>1, <3>2 DEF UIs
    <3> HIDE DEF new
    <3> QED BY <1>0, <2>2, <3>1, <3>3, ViewsKept, RenderStep
  <2> QED BY <2>3, <2>4
<1>6. ASSUME NEW c \in ui.lookup, LookupLost(c) PROVE IInv'
  <2> DEFINE new == [ui EXCEPT !.lookup = {}, !.rehydrate = "unreachable"]
  <2>1. Render(new) /\ UNCHANGED <<registry, pointer, started>>
    BY <1>6 DEF LookupLost
  <2>2. ui.run = None /\ ui.starts = {}
    BY <1>0, <1>6 DEF GateHolds
  <2>3. /\ new \in UIs /\ new.views = ui.views /\ new.run = None
        /\ new.lookup = {} /\ new.starts = {}
    BY <1>0, <2>2 DEF UIs, Kinds
  <2> HIDE DEF new
  <2> QED BY <1>0, <2>1, <2>3, ViewsKept, RenderStep
<1>7. ASSUME NEW v \in Views, NEW k \in ui.views[v].asked,
             ViewAnswered(v, k) \/ ViewFailed(v, k)
      PROVE  IInv'
  <2>1. ui.views[v] \in ApiStates
    BY <1>0 DEF UIs
  <2>2. k \in Runs \cup DetailKeys
    BY <2>1 DEF ApiStates
  <2>3. v \in Keyed => ui.views[v].asked \subseteq {None, Key(v, ui)}
    BY <1>0, ShownAbout DEF About
  <2>4. UNCHANGED <<registry, restarts, pointer, started>>
    BY <1>7 DEF ViewAnswered, ViewFailed
  <2>5. CASE ViewAnswered(v, k)
    <3> DEFINE a == Answered(ui.views[v], k)
    <3>1. Render([ui EXCEPT !.views[v] = a])
      BY <2>5 DEF ViewAnswered
    <3>2. a \in ApiStates /\ a.asked = ui.views[v].asked \ {k} /\ a.data = k
      BY <2>1, <2>2 DEF Answered, ApiStates
    <3> HIDE DEF a
    <3> QED BY <2>3, <2>4, <3>1, <3>2, ViewStep
  <2>6. CASE ViewFailed(v, k)
    <3> DEFINE a == Failed(ui.views[v], k)
    <3>1. Render([ui EXCEPT !.views[v] = a])
      BY <2>6 DEF ViewFailed
    <3>2. a \in ApiStates /\ a.asked = ui.views[v].asked \ {k} /\ a.data = None
      BY <2>1 DEF Failed, ApiStates, Runs
    <3> HIDE DEF a
    <3> QED BY <2>3, <2>4, <3>1, <3>2, ViewStep
  <2> QED BY <1>7, <2>5, <2>6
<1> QED BY <1>1, <1>2, <1>3, <1>4, <1>5, <1>6, <1>7 DEF Answers

LEMMA NextIInv == IInv /\ [Next]_vars => IInv'
<1> SUFFICES ASSUME IInv, [Next]_vars PROVE IInv'
  OBVIOUS
<1>1. CASE Person
  BY <1>1, PersonStep
<1>2. CASE Answers
  BY <1>2, AnswersStep
<1>3. ASSUME registry' \subseteq Datasets, UNCHANGED <<pointer, started, ui>> PROVE IInv'
  BY <1>3, ServedStep DEF IInv, TypeOK, LookupOfPointer
<1>4. CASE Restart
  BY <1>3, <1>4 DEF Restart
<1>5. CASE UNCHANGED vars
  BY <1>3, <1>5 DEF vars, IInv, TypeOK
<1> QED BY <1>1, <1>2, <1>4, <1>5 DEF Next

-----------------------------------------------------------------------------
\* At any time the tab is of its type, its gate is shut while a lookup is out, and
\* what it holds is about what it shows (RunContext.tsx, useAssayApi.ts).
THEOREM SessionInvariance == Spec => []IInv
BY InitIInv, NextIInv, PTL DEF Spec

\* The answer of the remembered run's lookup never replaces a run, and a reload
\* comes back to the run on screen: RunContext.tsx, rehydrate and startDemo.
THEOREM RememberedRunReturns == Spec => []RememberedIsShown
<1>1. IInv => RememberedIsShown
  BY DEF IInv, GateHolds, RememberedIsShown, LookupAlone
<1> QED BY <1>1, SessionInvariance, PTL

\* What the hooks with an effect or a keyed owner hold or wait for is about the run
\* and the decision on screen: useAssayApi.ts and the keyed panels.
THEOREM ViewsFollowTheRun == Spec => []ShownIsCurrent
<1>1. IInv => ShownIsCurrent
  BY DEF IInv
<1> QED BY <1>1, SessionInvariance, PTL

-----------------------------------------------------------------------------
(* The explanation of a decision                                            *)

Outcomes == {"accepted", "rejected_schema", "rejected_allowlist", "rejected_grounding",
             "fallback_offline"}
Fields == {p.field : p \in Prose}
Calls == [outcome : Outcomes, violations : SUBSET Fields, prose : Prose \cup {Null}]

CallsTyped ==
  /\ phase \in {"received", "asking", "exhausted", "replied"}
  /\ calls \in Seq(Calls)
  /\ failures \in Seq(TransportCodes \cup VerificationCodes)

\* An answer that passed the allowlist and the grounding rule.
Passed(d, p) == AllowlistViolations(d, p) = {} /\ Ok(GroundR4(d, p))

\* Only the last call can have been accepted, and then no further one is made.
OneAccepted ==
  \A i \in DOMAIN calls :
    calls[i].outcome = "accepted" =>
      /\ i = Len(calls) /\ phase \in {"exhausted", "replied"}
      /\ calls[i].prose \in Prose /\ Passed(request.decision, calls[i].prose)

\* After a call that reached no provider the last failure is its own.
FailureIsOfLast ==
  calls # <<>> /\ Last(calls).outcome = "fallback_offline" =>
    failures # <<>> /\ Last(failures) \in TransportCodes

Counted ==
  /\ phase = "received" => calls = <<>>
  /\ phase = "asking" => Len(calls) <= Retries
  /\ phase = "exhausted" => calls # <<>>
  /\ phase \in {"exhausted", "replied"} /\ calls # <<>> =>
       Last(calls).outcome = "accepted" \/ Len(calls) = Retries + 1

RepliedOf ==
  phase = "replied" =>
    IF calls = <<>> THEN \/ reply.status = "refused"
                         \/ reply.status = "unavailable" /\ reply.prose = Null
                    ELSE reply = ReplyOf(Last(calls))

ReplyInv == CallsTyped /\ OneAccepted /\ FailureIsOfLast /\ Counted /\ RepliedOf

-----------------------------------------------------------------------------
(* What the model's operators give                                         *)

\* The least of a set of naturals is one of them.
LEMMA FirstIsIn ==
  ASSUME NEW S, S \subseteq Nat, S # {}
  PROVE  Min(S) \in S
<1> DEFINE before == {p \in Nat \X Nat : p[1] < p[2]}
<1>1. IsWellFoundedOn(before, Nat)
  BY NatLessThanWellFounded DEF OpToRel
<1> HIDE DEF before
<1>2. PICK x \in S : \A y \in S : ~ (<<y, x>> \in before)
  BY <1>1, WFMin, Zenon
<1>3. ASSUME NEW y \in S PROVE x <= y
  <2>1. x \in Nat /\ y \in Nat /\ <<y, x>> \notin before
    BY <1>2
  <2> QED BY <2>1 DEF before
<1> QED BY <1>3 DEF Min

\* The target of a certificate is a row of the run, or there is none.
LEMMA TargetIsARow ==
  ASSUME NEW k
  PROVE  CertificateTarget(k) = Null \/ CertificateTarget(k) \in ToSet(Rows)
<1> DEFINE found == {i \in DOMAIN Rows : IsTarget(Rows[i], Certs[k].comp)}
<1>1. found \subseteq Nat
  BY ExplainAssumption
<1>2. CASE found = {}
  BY <1>2 DEF CertificateTarget
<1>3. CASE found # {}
  <2>1. Min(found) \in found
    BY <1>1, <1>3, FirstIsIn
  <2>2. Min(found) \in DOMAIN Rows
    BY <2>1
  <2>3. CertificateTarget(k) = Rows[Min(found)]
    BY <1>3 DEF CertificateTarget
  <2> QED BY <2>2, <2>3 DEF ToSet
<1> QED BY <1>2, <1>3

\* What an answer that passed names and quotes is of the decision's evidence.
LEMMA PassedIsGrounded ==
  ASSUME NEW d, NEW p, Passed(d, p)
  PROVE  /\ Named(p) \subseteq IdAllowlist(d)
         /\ p.figures \subseteq
              Shown(d) \cup {Row(d).value, Unresolved} \cup
              UNION {{Certs[k].materiality} \cup {r.value : r \in ToSet(Rows)} \cup
                     UNION {CandidateFigures(s) : s \in Solutions(k)} :
                     k \in {Cert(d)} \ {Null}}
<1>1. Named(p) \subseteq IdAllowlist(d) /\ p.figures \subseteq EvidenceSet(d)
  BY DEF Passed, Ok, GroundR4
<1> DEFINE figures(k) == {Certs[k].materiality} \cup {r.value : r \in ToSet(Rows)} \cup
                         UNION {CandidateFigures(s) : s \in Solutions(k)}
           allowed == Shown(d) \cup {Row(d).value, Unresolved} \cup
                      UNION {figures(k) : k \in {Cert(d)} \ {Null}}
<1> SUFFICES p.figures \subseteq allowed
  BY <1>1
<1> HIDE DEF allowed
<1>2. CASE Cert(d) = Null
  BY <1>1, <1>2 DEF EvidenceSet, TargetOf, allowed
<1>3. CASE Cert(d) # Null
  <2>1. Shown(d) \cup {Row(d).value, Unresolved} \cup figures(Cert(d)) \subseteq allowed
    BY <1>3 DEF allowed
  <2>2. TargetOf(d) = Null \/ TargetOf(d) \in ToSet(Rows)
    BY TargetIsARow DEF TargetOf
  <2>3. TargetOf(d) = Null \/ TargetOf(d).value \in figures(Cert(d))
    BY <2>2
  <2>4. EvidenceSet(d) \subseteq Shown(d) \cup {Row(d).value, Unresolved} \cup figures(Cert(d))
    BY <1>3, <2>3 DEF EvidenceSet
  <2> HIDE DEF figures
  <2> QED BY <1>1, <2>1, <2>4
<1> QED BY <1>2, <1>3

-----------------------------------------------------------------------------
(* The steps                                                               *)

LEMMA InitReplyInv == ExplainInit => ReplyInv
BY DEF ExplainInit, ReplyInv, CallsTyped, OneAccepted, FailureIsOfLast, Counted, RepliedOf

\* An attempt: one more call, a verdict or a failure, and the way on.
LEMMA AttemptKeeps ==
  ASSUME ReplyInv, phase = "asking", request' = request,
         NEW outcome \in Outcomes, NEW violations \in SUBSET Fields,
         NEW prose \in Prose \cup {Null},
         Call(outcome, violations, prose),
         outcome = "accepted" => prose \in Prose /\ Passed(request.decision, prose),
         failures' \in Seq(TransportCodes \cup VerificationCodes),
         outcome = "fallback_offline" => failures' # <<>> /\ Last(failures') \in TransportCodes
  PROVE  ReplyInv'
<1> DEFINE c == [outcome |-> outcome, violations |-> violations, prose |-> prose]
<1>1. c \in Calls /\ c.outcome = outcome /\ c.prose = prose
  BY DEF Calls
<1>2. calls \in Seq(Calls) /\ Len(calls) <= Retries /\ Retries \in Nat
  BY ExplainAssumption DEF ReplyInv, CallsTyped, Counted
<1>3. calls' = Append(calls, c)
  BY DEF Call
<1> HIDE DEF c
<1>4. /\ calls' \in Seq(Calls) /\ calls' # <<>> /\ Len(calls') = Len(calls) + 1
      /\ Last(calls') = c
      /\ \A i \in DOMAIN calls' : IF i = Len(calls') THEN calls'[i] = c
                                  ELSE i \in DOMAIN calls /\ calls'[i] = calls[i]
  BY <1>1, <1>2, <1>3 DEF Last
<1>5. phase' = IF outcome = "accepted" \/ Len(calls) = Retries THEN "exhausted" ELSE "asking"
  BY DEF Call, Proceed
<1>6. CallsTyped'
  BY <1>4, <1>5 DEF CallsTyped
<1>7. OneAccepted'
  <2> SUFFICES ASSUME NEW i \in DOMAIN calls', calls'[i].outcome = "accepted"
               PROVE  /\ i = Len(calls') /\ phase' \in {"exhausted", "replied"}
                      /\ calls'[i].prose \in Prose
                      /\ Passed(request.decision, calls'[i].prose)
    BY DEF OneAccepted
  <2>1. CASE i = Len(calls')
    BY <1>1, <1>4, <1>5, <2>1
  <2>2. CASE i # Len(calls')
    <3>1. i \in DOMAIN calls /\ calls[i].outcome = "accepted"
      BY <1>4, <2>2
    <3> QED BY <3>1 DEF ReplyInv, OneAccepted
  <2> QED BY <2>1, <2>2
<1>8. FailureIsOfLast'
  BY <1>1, <1>4 DEF FailureIsOfLast
<1>9. Counted'
  BY <1>1, <1>2, <1>4, <1>5 DEF Counted
<1>10. RepliedOf'
  BY <1>5 DEF RepliedOf
<1> QED BY <1>6, <1>7, <1>8, <1>9, <1>10 DEF ReplyInv

LEMMA NextReplyInv == ReplyInv /\ [ExplainNext]_explainVars => ReplyInv'
<1> SUFFICES ASSUME ReplyInv, [ExplainNext]_explainVars PROVE ReplyInv'
  OBVIOUS
<1>0. /\ calls \in Seq(Calls)
      /\ failures \in Seq(TransportCodes \cup VerificationCodes)
  BY DEF ReplyInv, CallsTyped
<1>1. CASE Refuse
  BY <1>1 DEF Refuse, ReplyInv, CallsTyped, OneAccepted, FailureIsOfLast, Counted, RepliedOf
<1>2. CASE Unconfigured
  BY <1>2 DEF Unconfigured, ReplyInv, CallsTyped, OneAccepted, FailureIsOfLast, Counted, RepliedOf
<1>3. CASE Begin
  BY <1>3, ExplainAssumption
     DEF Begin, ReplyInv, CallsTyped, OneAccepted, FailureIsOfLast, Counted, RepliedOf
<1>4. ASSUME NEW code \in TransportCodes, AttemptFails(code) PROVE ReplyInv'
  <2>1. failures' = Append(failures, code)
    BY <1>4 DEF AttemptFails
  <2>2. /\ failures' \in Seq(TransportCodes \cup VerificationCodes) /\ failures' # <<>>
        /\ Last(failures') = code
    BY <1>0, <2>1 DEF Last
  <2>3. Call("fallback_offline", {}, Null) /\ phase = "asking" /\ request' = request
    BY <1>4 DEF AttemptFails
  <2>4. "fallback_offline" \in Outcomes /\ "fallback_offline" # "accepted"
    BY DEF Outcomes
  <2> QED BY <2>2, <2>3, <2>4, AttemptKeeps
<1>5. CASE AttemptMalformed
  <2>1. failures' = Append(failures, "MALFORMED_RESPONSE")
    BY <1>5 DEF AttemptMalformed
  <2>2. failures' \in Seq(TransportCodes \cup VerificationCodes)
    BY <1>0, <2>1 DEF VerificationCodes
  <2>3. Call("rejected_schema", {}, Null) /\ phase = "asking" /\ request' = request
    BY <1>5 DEF AttemptMalformed
  <2>4. "rejected_schema" \in Outcomes /\ "rejected_schema" \notin {"accepted", "fallback_offline"}
    BY DEF Outcomes
  <2> QED BY <2>2, <2>3, <2>4, AttemptKeeps
<1>6. ASSUME NEW p \in Prose, AttemptAnswered(p) PROVE ReplyInv'
  <2> DEFINE violations == AllowlistViolations(request.decision, p)
             outcome == IF violations # {} THEN "rejected_allowlist"
                        ELSE IF ~Ok(GroundR4(request.decision, p)) THEN "rejected_grounding"
                        ELSE "accepted"
  <2>1. /\ Call(outcome, violations, p) /\ phase = "asking" /\ request' = request
        /\ failures' = failures
    BY <1>6 DEF AttemptAnswered
  <2>2. violations \in SUBSET Fields
    BY DEF AllowlistViolations, Fields
  <2>3. outcome \in Outcomes /\ outcome # "fallback_offline"
    BY DEF Outcomes
  <2>4. outcome = "accepted" => Passed(request.decision, p)
    BY DEF Passed
  <2> HIDE DEF violations, outcome
  <2> QED BY <1>0, <2>1, <2>2, <2>3, <2>4, AttemptKeeps
<1>7. CASE Reply
  BY <1>7 DEF Reply, ReplyOf, Checks, VerificationFailure, Stray, ReplyInv, CallsTyped, OneAccepted,
              FailureIsOfLast, Counted, RepliedOf
<1>8. CASE UNCHANGED explainVars
  BY <1>8 DEF explainVars, ReplyOf, Checks, VerificationFailure, Stray, ReplyInv, CallsTyped, OneAccepted,
              FailureIsOfLast, Counted, RepliedOf
<1> QED BY <1>1, <1>2, <1>3, <1>4, <1>5, <1>6, <1>7, <1>8 DEF ExplainNext

-----------------------------------------------------------------------------
\* At any time only the last call can have been accepted, of a grounded answer, and
\* the last failure is of the last call: explain/service.ts, adjudicate.ts.
THEOREM ExplainInvariance == ExplainSpec => []ReplyInv
BY InitReplyInv, NextReplyInv, PTL DEF ExplainSpec

\* What a call that was not accepted is reported as.
LEMMA RefusedReply ==
  ASSUME NEW c \in Calls
  PROVE  /\ (VerificationFailure(c) # Null) <=>
              c.outcome \in {"rejected_schema", "rejected_allowlist", "rejected_grounding"}
         /\ VerificationFailure(c) \in VerificationCodes \cup {Null}
<1>1. Null \notin VerificationCodes
  BY ExplainAssumption
<1> QED BY <1>1 DEF VerificationFailure, VerificationCodes, Calls, Outcomes

LEMMA HonestReply ==
  ASSUME ReplyInv, Explained
  PROVE  ReplyIsHonest
<1>1. CASE calls = <<>>
  <2>1. reply.status # "ok" /\ reply.prose = Null
    BY <1>1 DEF Explained, ReplyInv, RepliedOf
  <2> QED BY <1>1, <2>1 DEF ReplyIsHonest, AnswerIsGrounded, RefusalSaysWhy
<1>2. CASE calls # <<>>
  <2> DEFINE c == Last(calls)
             failed == VerificationFailure(c)
  <2>1. reply = ReplyOf(c)
    BY <1>2 DEF Explained, ReplyInv, RepliedOf
  <2>2. c \in Calls /\ Len(calls) \in DOMAIN calls /\ c = calls[Len(calls)]
    BY <1>2 DEF ReplyInv, CallsTyped, Last
  <2>3. /\ failed # Null <=>
             c.outcome \in {"rejected_schema", "rejected_allowlist", "rejected_grounding"}
        /\ failed \in VerificationCodes \cup {Null}
    BY <2>2, RefusedReply
  <2>4. c.outcome \in Outcomes
    BY <2>2 DEF Calls
  <2>5. /\ reply.status = (IF c.outcome = "accepted" THEN "ok"
                           ELSE IF failed # Null THEN "rejected" ELSE "unavailable")
        /\ reply.failure = (IF c.outcome = "accepted" THEN Null
                            ELSE IF failed # Null THEN failed ELSE Last(failures))
        /\ reply.fallback = (c.outcome # "accepted" /\ failed = Null)
        /\ reply.prose = (IF c.outcome = "accepted" THEN c.prose ELSE Null)
    BY <2>1 DEF ReplyOf
  <2>6. c.outcome = "accepted" => c.prose \in Prose /\ Passed(request.decision, c.prose)
    BY <2>2 DEF ReplyInv, OneAccepted
  <2>7. c.outcome = "fallback_offline" => failures # <<>> /\ Last(failures) \in TransportCodes
    BY <1>2 DEF ReplyInv, FailureIsOfLast
  <2>8. c.outcome = "fallback_offline" => Len(calls) = Retries + 1
    BY <1>2 DEF Explained, ReplyInv, Counted
  <2>9. \A i \in 1..(Len(calls) - 1) : calls[i].outcome # "accepted"
    BY DEF ReplyInv, CallsTyped, OneAccepted
  <2> HIDE DEF c, failed
  <2>10. Null \notin Prose /\ Null \notin TransportCodes /\ TransportCodes \cap VerificationCodes = {}
    BY ExplainAssumption DEF TransportCodes, VerificationCodes
  <2>11. AnswerIsGrounded
    <3>1. reply.status = "ok" <=> c.outcome = "accepted"
      BY <2>5
    <3>2. reply.status = "ok" <=> reply.prose # Null
      BY <2>5, <2>6, <2>10
    <3>3. reply.status = "ok" => reply.prose = c.prose /\ Passed(request.decision, reply.prose)
      BY <2>5, <2>6, <3>1
    <3> QED BY <3>2, <3>3, PassedIsGrounded DEF AnswerIsGrounded
  <2>12. RefusalSaysWhy
    <3>1. reply.fallback <=> c.outcome = "fallback_offline"
      BY <2>3, <2>4, <2>5 DEF Outcomes
    <3>2. reply.failure \in TransportCodes <=> c.outcome = "fallback_offline"
      BY <2>3, <2>4, <2>5, <2>7, <2>10 DEF Outcomes
    <3>3. c.outcome = "fallback_offline" => reply.failure = failures[Len(failures)]
      BY <2>3, <2>5 DEF Last
    <3> QED BY <2>8, <2>9, <3>1, <3>2, <3>3 DEF RefusalSaysWhy, c
  <2> QED BY <2>11, <2>12 DEF ReplyIsHonest
<1> QED BY <1>1, <1>2

\* What is shown as an explanation is of the decision's own evidence, and a refusal is
\* the last attempt's own: the route explain.ts, service.ts and the grounding rule R4.
THEOREM RepliesAreHonest == ExplainSpec => []ReplyIsHonest
<1>1. ReplyInv => ReplyIsHonest
  <2>1. CASE ~Explained
    BY <2>1 DEF ReplyIsHonest, AnswerIsGrounded, RefusalSaysWhy
  <2> QED BY <2>1, HonestReply
<1> QED BY <1>1, ExplainInvariance, PTL
=============================================================================
