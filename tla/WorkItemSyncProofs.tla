-------------------------- MODULE WorkItemSyncProofs --------------------------
(***************************************************************************)
(* For any items, pages, clocks and faults, and one synchronization of the *)
(* repository at a time: the cursor covers every change, subscribers know  *)
(* what is stored, and no event tells what they know.                      *)
(***************************************************************************)
EXTENDS WorkItemSync, FiniteSetTheorems, SequenceTheorems, TLAPS

USE WorkItemConstants

\* The queue lets one worker synchronize a repository at a time (AccountExclusion
\* of SyncQueue).
OneSyncer == \A s, t \in Syncers : s = t

-----------------------------------------------------------------------------
(* Types. *)

Version == [state: States, created: Nat, updated: Nat]
Reading == Version \cup {Absent}
Types   == {"OPENED", "REOPENED", "CLOSED", "MERGED"}
Known   == States \cup {"ABSENT"}
Stages  == {"idle", "window", "listing", "persisting", "upserting", "emitting"}

\* What lifecycle events there may be of a state: the last one means it.
EventsOf(state) ==
  {<<t>> : t \in {u \in Types : Meaning(u) = state}}
    \cup (IF state = "OPEN" THEN {} ELSE {<<"OPENED", state>>})

EventLists == {<<>>} \cup UNION {EventsOf(state) : state \in States}

Synchronization ==
  [through: Nat, cursor: Nat \cup {NoCursor}, query: {"recent", "open"},
   page: Nat \ {0}, listed: [Items -> Reading], current: Reading, number: Nat,
   previous: Known, events: EventLists]

\* At stage p a synchronization v handles an item, in the version it has listed,
\* and has events to emit; or it does not.
Staged(p, v) ==
  /\ p \in {"upserting", "emitting"} =>
       v.number \in Items /\ v.current \in Version /\ v.listed[v.number] = Absent
  /\ IF p = "emitting" THEN v.events \in EventsOf(v.current.state) ELSE v.events = <<>>

DataOK ==
  /\ clock \in Nat /\ Start <= clock
  /\ item \in [Items -> Reading] /\ real \in [Items -> Nat]
  /\ stored \in [Items -> Reading]
  /\ cursor \in Nat \cup {NoCursor} /\ first \in Nat \cup {NoCursor}
  /\ announced \subseteq [item: Items, type: Types, updated: Nat]
  /\ changes \in Nat /\ faults \in Nat
  /\ told \in [Items -> Known] /\ lost \subseteq Items

ControlOK ==
  /\ pc \in [Syncers -> Stages] /\ sync \in [Syncers -> Synchronization]
  /\ \A s \in Syncers : Staged(pc[s], sync[s])

TypeOK == DataOK /\ ControlOK

LEMMA Nothing ==
  /\ Absent \in Reading /\ Absent \notin Version
  /\ NoSync \in Synchronization /\ NoSync.events = <<>> /\ <<>> \in EventLists
  /\ \A i \in Items : NoSync.listed[i] = Absent
BY DEF Absent, Reading, Version, States, NoSync, Synchronization, Known, EventLists

\* What there is to emit of a version: nothing if its state was stored, and
\* otherwise events of which the last means its state and the first another than
\* was stored.
LEMMA EventsMean ==
  ASSUME NEW previous \in Known, NEW state \in States, NEW after \in BOOLEAN,
         NEW events, events = LifecycleEvents(previous, state, after), events # <<>>
  PROVE  /\ previous # state
         /\ events \in EventsOf(state)
         /\ Meaning(Head(events)) # previous
<1>1. previous # state
  BY DEF LifecycleEvents
<1>2. CASE previous # "ABSENT"
  BY <1>1, <1>2 DEF LifecycleEvents, EventsOf, Types, Meaning, States, Known
<1>3. CASE previous = "ABSENT" /\ ~after
  <2>1. state # "OPEN" /\ events = <<>> \o <<state>>
    BY <1>1, <1>3 DEF LifecycleEvents
  <2>2. events = <<state>>
    BY <2>1
  <2>. QED BY <1>3, <2>1, <2>2 DEF EventsOf, Types, Meaning, States
<1>4. CASE previous = "ABSENT" /\ after /\ state = "OPEN"
  <2>1. events = <<"OPENED">> \o <<>>
    BY <1>1, <1>4 DEF LifecycleEvents
  <2>2. events = <<"OPENED">>
    BY <2>1
  <2>3. "OPENED" \in {u \in Types : Meaning(u) = state}
    BY <1>4 DEF Types, Meaning
  <2>4. events \in EventsOf(state)
    BY <2>2, <2>3 DEF EventsOf
  <2>5. Head(events) = "OPENED"
    BY <2>2
  <2>. QED BY <1>1, <1>4, <2>4, <2>5 DEF Meaning
<1>5. CASE previous = "ABSENT" /\ after /\ state # "OPEN"
  <2>1. events = <<"OPENED">> \o <<state>>
    BY <1>1, <1>5 DEF LifecycleEvents
  <2>2. <<"OPENED">> \in Seq({"OPENED", state}) /\ <<state>> \in Seq({"OPENED", state})
        /\ <<"OPENED", state>> \in Seq({"OPENED", state})
    OBVIOUS
  <2>3. events = <<"OPENED", state>>
    <3>1. /\ events \in Seq({"OPENED", state}) /\ Len(events) = 2
          /\ \A n \in 1 .. 2 : events[n] = IF n <= 1 THEN <<"OPENED">>[n] ELSE <<state>>[n - 1]
      BY <2>1, <2>2, ConcatProperties
    <3>2. events[1] = "OPENED" /\ events[2] = state
      BY <3>1
    <3>3. \A n \in 1 .. Len(events) : events[n] = <<"OPENED", state>>[n]
      BY <3>1, <3>2
    <3>. QED BY ONLY <2>2, <3>1, <3>3, SeqEqual
  <2>4. events \in EventsOf(state)
    BY <1>5, <2>3 DEF EventsOf
  <2>5. Head(events) = "OPENED"
    BY <2>3
  <2>. QED BY <1>1, <1>5, <2>4, <2>5 DEF Meaning
<1>. QED BY <1>2, <1>3, <1>4, <1>5

\* The first event is of a type there is; what is left means the state as well.
LEMMA EventsLeft ==
  ASSUME NEW state \in States, NEW events \in EventsOf(state)
  PROVE  /\ events # <<>> /\ Head(events) \in Types
         /\ \E n \in DOMAIN events : events[n] = Head(events)
         /\ Tail(events) # <<>> =>
              /\ Tail(events) \in EventsOf(state)
              /\ \A n \in DOMAIN Tail(events) : Tail(events)[n] # Head(events)
              /\ Meaning(Head(Tail(events))) # Meaning(Head(events))
         /\ Tail(events) = <<>> => Meaning(Head(events)) = state
         /\ \A n \in DOMAIN Tail(events) : \E m \in DOMAIN events :
              Tail(events)[n] = events[m]
<1>1. CASE \E t \in Types : events = <<t>> /\ Meaning(t) = state
  BY <1>1
<1>2. CASE state # "OPEN" /\ events = <<"OPENED", state>>
  BY <1>2 DEF EventsOf, Types, Meaning, States
<1>. QED BY <1>1, <1>2 DEF EventsOf

\* A synchronization that goes on with what is typed keeps the types, and with one
\* synchronization, none but it matters to what is said of all.
LEMMA GoAlone ==
  ASSUME OneSyncer, TypeOK, NEW s \in Syncers, NEW p, NEW v, Go(s, p, v),
         p \in Stages, v \in Synchronization, Staged(p, v)
  PROVE  /\ ControlOK'
         /\ \A t \in Syncers : t = s /\ pc'[t] = p /\ sync'[t] = v
         /\ pc'[s] = p /\ sync'[s] = v
<1>1. /\ pc' = [pc EXCEPT ![s] = p] /\ sync' = [sync EXCEPT ![s] = v]
      /\ pc \in [Syncers -> Stages] /\ sync \in [Syncers -> Synchronization]
  BY DEF Go, TypeOK, ControlOK
<1>2. \A t \in Syncers : t = s
  BY DEF OneSyncer
<1>. QED BY <1>1, <1>2 DEF ControlOK

LEMMA InitTypeOK == Init => TypeOK
<1> SUFFICES ASSUME Init PROVE TypeOK
  OBVIOUS
<1>1. item \in [Items -> Reading] /\ real \in [Items -> Nat]
  BY DEF Init, Reading, Version, Absent
<1>. QED BY <1>1, Nothing DEF Init, TypeOK, DataOK, ControlOK, Staged, Stages, Known

\* The events of an upsert.
UpsertEvents(v) ==
  IF baseline(v) THEN <<>>
  ELSE LifecycleEvents(v.previous, v.current.state, v.current.created > v.cursor)

LEMMA UpsertEventsMean ==
  ASSUME NEW v \in Synchronization, v.current \in Version, UpsertEvents(v) # <<>>
  PROVE  /\ v.previous # v.current.state
         /\ UpsertEvents(v) \in EventsOf(v.current.state)
         /\ Meaning(Head(UpsertEvents(v))) # v.previous
<1>1. ~baseline(v)
  BY DEF UpsertEvents
<1>2. v.previous \in Known /\ v.current.state \in States
      /\ (v.current.created > v.cursor) \in BOOLEAN
  BY <1>1 DEF Synchronization, Version
<1>3. UpsertEvents(v) = LifecycleEvents(v.previous, v.current.state,
                                        v.current.created > v.cursor)
  BY <1>1 DEF UpsertEvents
<1>. QED BY <1>2, <1>3, EventsMean

\* The pages that are read are typed.
LEMMA ReadTyped ==
  ASSUME TypeOK, NEW v \in Synchronization, NEW read,
         read = [v EXCEPT !.listed = [i \in Items |-> IF i \in Page(v) THEN item[i]
                                                     ELSE v.listed[i]]]
  PROVE  /\ read \in Synchronization /\ read.events = v.events
         /\ [read EXCEPT !.page = @ + 1] \in Synchronization
         /\ [read EXCEPT !.query = "open", !.page = 1] \in Synchronization
<1>. DEFINE listed == [i \in Items |-> IF i \in Page(v) THEN item[i] ELSE v.listed[i]]
<1>1. listed \in [Items -> Reading]
  BY DEF TypeOK, DataOK, Synchronization
<1>2. read = [v EXCEPT !.listed = listed]
  OBVIOUS
<1>. HIDE DEF listed
<1>3. read \in Synchronization /\ read.events = v.events
  BY <1>1, <1>2 DEF Synchronization
<1>4. [read EXCEPT !.page = @ + 1] \in Synchronization
  BY ONLY <1>3 DEF Synchronization
<1>5. [read EXCEPT !.query = "open", !.page = 1] \in Synchronization
  <2>1. [read EXCEPT !.query = "open"] \in Synchronization
    BY ONLY <1>3 DEF Synchronization
  <2>2. \A w \in Synchronization : [w EXCEPT !.page = 1] \in Synchronization
    BY ONLY TRUE DEF Synchronization
  <2>. QED BY ONLY <2>1, <2>2
<1>. QED BY <1>3, <1>4, <1>5

\* The provider alters an item, and stamps it with a time up to Skew ago.
LEMMA ProviderAlters ==
  ASSUME TypeOK, Provider
  PROVE  \E i \in Items, v \in Version : Alter(i, v) /\ v.updated \in clock - Skew .. clock
<1>1. PICK i \in Items, t \in clock - Skew .. clock :
        Open(i, t) \/ Touch(i, t) \/ \E s \in States : Turn(i, s, t)
  BY DEF Provider
<1>2. t \in Nat /\ item[i] \in Reading
  BY <1>1 DEF TypeOK, DataOK
<1>3. CASE Open(i, t)
  BY <1>2, <1>3 DEF Open, Version, States
<1>4. CASE Touch(i, t)
  BY <1>2, <1>4 DEF Touch, Version, Reading
<1>5. ASSUME NEW s \in States, Turn(i, s, t)
      PROVE  \E v \in Version : Alter(i, v) /\ v.updated = t
  <2>1. item[i] \in Version
    BY <1>2, <1>5 DEF Turn, Reading, Absent
  <2>2. \A w \in Version : /\ [w EXCEPT !.state = s, !.updated = t] \in Version
                           /\ [w EXCEPT !.state = s, !.updated = t].updated = t
    BY <1>2 DEF Version
  <2>. QED BY <1>5, <2>1, <2>2 DEF Turn
<1>. QED BY <1>1, <1>3, <1>4, <1>5

LEMMA StepTypeOK ==
  ASSUME OneSyncer, TypeOK, [Next]_vars
  PROVE  TypeOK'
<1>1. CASE UNCHANGED vars
  BY <1>1 DEF vars, provider, history, TypeOK, DataOK, ControlOK, Staged
<1>2. CASE Tick
  BY <1>2 DEF Tick, provider, history, TypeOK, DataOK, ControlOK, Staged
<1>3. CASE Provider
  <2>3. PICK i \in Items, v \in Version : Alter(i, v)
    BY <1>3, ProviderAlters
  <2>4. DataOK'
    <3>1. v \in Reading
      BY DEF Reading
    <3>2. item' \in [Items -> Reading] /\ real' \in [Items -> Nat] /\ changes' \in Nat
      BY <2>3, <3>1 DEF Alter, TypeOK, DataOK
    <3>. QED BY <2>3, <3>2 DEF Alter, history, TypeOK, DataOK
  <2>. QED BY <2>3, <2>4 DEF Alter, TypeOK, ControlOK, Staged
<1>4. ASSUME NEW s \in Syncers, BeginSync(s)
      PROVE  TypeOK'
  <2>1. [NoSync EXCEPT !.through = clock] \in Synchronization
        /\ [NoSync EXCEPT !.through = clock].events = <<>>
    BY Nothing DEF Synchronization, TypeOK, DataOK
  <2>2. ControlOK'
    BY <1>4, <2>1, GoAlone DEF BeginSync, Stages, Staged
  <2>. QED BY <1>4, <2>2 DEF BeginSync, Quiet, provider, history, TypeOK, DataOK
<1>5. ASSUME NEW s \in Syncers, ReadCursor(s)
      PROVE  TypeOK'
  <2>1. sync[s] \in Synchronization /\ sync[s].events = <<>>
        /\ cursor \in Nat \cup {NoCursor}
    BY <1>5 DEF ReadCursor, TypeOK, ControlOK, Staged, DataOK
  <2>2. [sync[s] EXCEPT !.cursor = cursor] \in Synchronization
        /\ [sync[s] EXCEPT !.cursor = cursor].events = <<>>
    BY <2>1 DEF Synchronization
  <2>3. ControlOK'
    BY <1>5, <2>2, GoAlone DEF ReadCursor, Stages, Staged
  <2>. QED BY <1>5, <2>3 DEF ReadCursor, Quiet, provider, history, TypeOK, DataOK
<1>6. ASSUME NEW s \in Syncers, ListPage(s)
      PROVE  TypeOK'
  <2>. DEFINE v == sync[s]
              read == [v EXCEPT !.listed = [i \in Items |-> IF i \in Page(v) THEN item[i]
                                                            ELSE v.listed[i]]]
  <2>1. v \in Synchronization /\ v.events = <<>>
    BY <1>6 DEF ListPage, TypeOK, ControlOK, Staged
  <2>2. /\ read \in Synchronization /\ read.events = <<>>
        /\ [read EXCEPT !.page = @ + 1] \in Synchronization
        /\ [read EXCEPT !.query = "open", !.page = 1] \in Synchronization
    BY <2>1, ReadTyped
  <2>3. PICK w \in Synchronization, p \in {"listing", "persisting"} :
          Go(s, p, w) /\ w.events = <<>>
    <3>1. /\ [read EXCEPT !.page = @ + 1].events = <<>>
          /\ [read EXCEPT !.query = "open", !.page = 1].events = <<>>
      BY <2>2 DEF Synchronization
    <3>2. \/ Go(s, "listing", [read EXCEPT !.page = @ + 1])
          \/ Go(s, "listing", [read EXCEPT !.query = "open", !.page = 1])
          \/ Go(s, "persisting", read)
      BY <1>6 DEF ListPage
    <3>. QED BY <2>2, <3>1, <3>2
  <2>4. ControlOK'
    BY <2>3, GoAlone DEF Stages, Staged
  <2>. QED BY <1>6, <2>4 DEF ListPage, Quiet, provider, history, TypeOK, DataOK
<1>7. ASSUME NEW s \in Syncers, NEW i \in Items, ReadPrevious(s, i)
      PROVE  TypeOK'
  <2>. DEFINE v == [sync[s] EXCEPT !.listed[i] = Absent, !.number = i,
                                   !.current = sync[s].listed[i],
                                   !.previous = stored[i].state]
  <2>1. /\ sync[s] \in Synchronization /\ sync[s].events = <<>>
        /\ stored[i] \in Reading /\ sync[s].listed \in [Items -> Reading]
        /\ sync[s].listed[i] \in Version /\ i \in Nat
    BY <1>7, SMTT(60) DEF ReadPrevious, TypeOK, ControlOK, Staged, DataOK, Synchronization,
                          Reading
  <2>2. stored[i].state \in Known
    BY <2>1 DEF Reading, Version, Absent, Known
  <2>3. /\ v \in Synchronization /\ v.number = i /\ v.current \in Version
        /\ v.listed[i] = Absent /\ v.events = <<>>
    BY <2>1, <2>2, Nothing DEF Synchronization, Reading
  <2>4. Go(s, "upserting", v)
    BY <1>7 DEF ReadPrevious
  <2>. HIDE DEF v
  <2>5. ControlOK'
    BY <2>3, <2>4, GoAlone DEF Stages, Staged
  <2>. QED BY <1>7, <2>5 DEF ReadPrevious, Quiet, provider, history, TypeOK, DataOK
<1>8. ASSUME NEW s \in Syncers, Upsert(s)
      PROVE  TypeOK'
  <2>. DEFINE v == sync[s]
  <2>1. /\ v \in Synchronization /\ v.number \in Items /\ v.current \in Version
        /\ v.listed[v.number] = Absent /\ v.events = <<>>
    BY <1>8 DEF Upsert, TypeOK, ControlOK, Staged
  <2>2. v.current \in Reading /\ v.current.state \in States /\ v.current.state \in Known
    BY <2>1 DEF Reading, Version, Known
  <2>3. DataOK'
    BY <1>8, <2>1, <2>2 DEF Upsert, provider, TypeOK, DataOK
  <2>4. CASE UpsertEvents(v) = <<>>
    <3>. DEFINE w == [v EXCEPT !.number = 0, !.current = Absent, !.previous = "ABSENT"]
    <3>1. w \in Synchronization /\ w.events = <<>>
      BY <2>1, Nothing DEF Synchronization, Known
    <3>2. Go(s, "persisting", w)
      BY <1>8, <2>4 DEF Upsert, UpsertEvents
    <3>. QED BY <2>3, <3>1, <3>2, GoAlone DEF Stages, Staged, TypeOK
  <2>5. CASE UpsertEvents(v) # <<>>
    <3>. DEFINE w == [v EXCEPT !.events = UpsertEvents(v), !.previous = "ABSENT"]
    <3>1. UpsertEvents(v) \in EventsOf(v.current.state) /\ UpsertEvents(v) \in EventLists
      BY <2>1, <2>2, <2>5, UpsertEventsMean DEF EventLists
    <3>2. /\ w \in Synchronization
          /\ w.number = v.number /\ w.current = v.current /\ w.listed = v.listed
          /\ w.events = UpsertEvents(v)
      BY <2>1, <3>1 DEF Synchronization, Known
    <3>3. Go(s, "emitting", w)
      BY <1>8, <2>5 DEF Upsert, UpsertEvents
    <3>. HIDE DEF w
    <3>4. Staged("emitting", w)
      BY <2>1, <3>1, <3>2 DEF Staged
    <3>. QED BY <2>3, <3>2, <3>3, <3>4, GoAlone DEF Stages, TypeOK
  <2>. QED BY <2>4, <2>5
<1>9. ASSUME NEW s \in Syncers, Emit(s)
      PROVE  TypeOK'
  <2>. DEFINE v == sync[s]
              e == [item |-> v.number, type |-> Head(v.events),
                    updated |-> v.current.updated]
  <2>1. /\ v \in Synchronization /\ v.number \in Items /\ v.current \in Version
        /\ v.listed[v.number] = Absent
        /\ v.current.state \in States /\ v.events \in EventsOf(v.current.state)
    BY <1>9 DEF Emit, TypeOK, ControlOK, Staged, Version
  <2>2. /\ Head(v.events) \in Types
        /\ Tail(v.events) # <<>> => Tail(v.events) \in EventsOf(v.current.state)
    BY <2>1, EventsLeft
  <2>3. Meaning(Head(v.events)) \in Known
    <3>1. \A events \in EventsOf(v.current.state) : Meaning(Head(events)) \in Known
      BY <2>1 DEF EventsOf, Meaning, Known, States
    <3>. QED BY <2>1, <3>1
  <2>4. e \in [item: Items, type: Types, updated: Nat]
    BY <2>1, <2>2 DEF Version
  <2>5. DataOK'
    BY <1>9, <2>1, <2>3, <2>4 DEF Emit, provider, TypeOK, DataOK
  <2>6. CASE Tail(v.events) = <<>>
    <3>. DEFINE w == [v EXCEPT !.number = 0, !.current = Absent, !.events = <<>>]
    <3>1. w \in Synchronization /\ w.events = <<>>
      BY <2>1, Nothing DEF Synchronization
    <3>2. Go(s, "persisting", w)
      BY <1>9, <2>6 DEF Emit
    <3>. QED BY <2>5, <3>1, <3>2, GoAlone DEF Stages, Staged, TypeOK
  <2>7. CASE Tail(v.events) # <<>>
    <3>. DEFINE w == [v EXCEPT !.events = Tail(@)]
    <3>1. Tail(v.events) \in EventLists
      BY <2>1, <2>2, <2>7 DEF EventLists
    <3>2. /\ w \in Synchronization
          /\ w.number = v.number /\ w.current = v.current /\ w.listed = v.listed
          /\ w.events = Tail(v.events)
      BY <2>1, <3>1 DEF Synchronization
    <3>3. Go(s, "emitting", w)
      BY <1>9, <2>7 DEF Emit
    <3>. HIDE DEF w
    <3>4. Staged("emitting", w)
      BY <2>1, <2>2, <2>7, <3>2 DEF Staged
    <3>. QED BY <2>5, <3>2, <3>3, <3>4, GoAlone DEF Stages, TypeOK
  <2>. QED BY <2>6, <2>7
<1>10. ASSUME NEW s \in Syncers, AdvanceCursor(s)
       PROVE  TypeOK'
  <2>1. sync[s].through \in Nat
    BY DEF TypeOK, ControlOK, Synchronization
  <2>2. DataOK'
    BY <1>10, <2>1 DEF AdvanceCursor, Advance, provider, TypeOK, DataOK
  <2>. QED BY <1>10, <2>2, Nothing, GoAlone DEF AdvanceCursor, Advance, Stages, Staged, TypeOK
<1>11. ASSUME NEW s \in Syncers, Crash(s)
       PROVE  TypeOK'
  <2>1. lost' \subseteq Items
    BY <1>11 DEF Crash, TypeOK, DataOK, ControlOK, Staged
  <2>2. DataOK'
    BY <1>11, <2>1 DEF Crash, provider, TypeOK, DataOK
  <2>. QED BY <1>11, <2>2, Nothing, GoAlone DEF Crash, Stages, Staged, TypeOK
<1>. QED BY <1>1, <1>2, <1>3, <1>4, <1>5, <1>6, <1>7, <1>8, <1>9, <1>10, <1>11
         DEF Next, Step

-----------------------------------------------------------------------------
(* What is stored. *)

\* Version a of an item is its version b or was there before it.
IsEarlier(a, b) == a = b \/ a = Absent \/ (b # Absent /\ a.updated < b.updated)

\* What synchronization v has read at stage p.
Reads(p, v) ==
  /\ \A i \in Items :
       v.listed[i] # Absent =>
         IsEarlier(stored[i], v.listed[i]) /\ IsEarlier(v.listed[i], item[i])
  /\ p = "upserting" =>
       /\ IsEarlier(stored[v.number], v.current)
       /\ IsEarlier(v.current, item[v.number])
       /\ v.previous = stored[v.number].state
  /\ p = "emitting" => stored[v.number] = v.current

\* What is read of an item is its version or an earlier one, and not earlier than
\* what is stored; what was announced is of a version that was stored.
Versions ==
  /\ \A i \in Items : IsEarlier(stored[i], item[i])
  /\ \A s \in Syncers : Reads(pc[s], sync[s])
  /\ \A e \in announced :
       stored[e.item] # Absent /\ e.updated <= stored[e.item].updated

LEMMA EarlierFacts ==
  /\ \A a \in Reading : a.updated \in Nat
  /\ \A a \in Reading : IsEarlier(a, a) /\ IsEarlier(Absent, a)
  /\ \A a, b, c \in Reading : IsEarlier(a, b) /\ IsEarlier(b, c) => IsEarlier(a, c)
  /\ \A a, b \in Reading : IsEarlier(a, b) /\ IsEarlier(b, a) => a = b
  /\ \A a, b \in Reading :
       IsEarlier(a, b) /\ a # Absent =>
         b # Absent /\ a.updated <= b.updated /\ (a.updated = b.updated => a = b)
BY DEF IsEarlier, Reading, Version, Absent

LEMMA GoVersions ==
  ASSUME OneSyncer, TypeOK, Versions, NEW s \in Syncers, NEW p, NEW v, Go(s, p, v),
         UNCHANGED <<item, stored, announced>>, Reads(p, v)
  PROVE  Versions'
<1>1. /\ pc' = [pc EXCEPT ![s] = p] /\ sync' = [sync EXCEPT ![s] = v]
      /\ pc \in [Syncers -> Stages] /\ sync \in [Syncers -> Synchronization]
  BY DEF Go, TypeOK, ControlOK
<1>2. \A t \in Syncers : pc'[t] = p /\ sync'[t] = v
  BY <1>1 DEF OneSyncer
<1>. QED BY <1>2 DEF Versions, Reads, IsEarlier

LEMMA InitVersions == Init => Versions
BY Nothing DEF Init, Versions, Reads, IsEarlier

LEMMA StepVersions ==
  ASSUME OneSyncer, TypeOK, Versions, [Next]_vars
  PROVE  Versions'
<1>. /\ item \in [Items -> Reading] /\ stored \in [Items -> Reading]
     /\ announced \subseteq [item: Items, type: Types, updated: Nat]
  BY DEF TypeOK, DataOK
<1>. \A s \in Syncers :
       sync[s] \in Synchronization /\ sync[s].listed \in [Items -> Reading]
  BY DEF TypeOK, ControlOK, Synchronization
<1>1. CASE UNCHANGED vars \/ Tick
  BY <1>1 DEF vars, provider, Tick, Versions, Reads
<1>2. CASE Provider
  <2>2. PICK i \in Items, v \in Version : Alter(i, v)
    BY <1>2, ProviderAlters
  <2>3. \A a \in Reading : IsEarlier(a, item[i]) => IsEarlier(a, item'[i])
    BY <2>2 DEF Alter, IsEarlier, Reading, Version, Absent
  <2>4. \A j \in Items, a \in Reading : IsEarlier(a, item[j]) => IsEarlier(a, item'[j])
    BY <2>2, <2>3 DEF Alter
  <2>5. \A s \in Syncers : pc[s] = "upserting" =>
          sync[s].number \in Items /\ sync[s].current \in Reading
    BY DEF TypeOK, ControlOK, Staged, Reading
  <2>. QED BY <2>2, <2>4, <2>5 DEF Alter, Versions, Reads
<1>3. ASSUME NEW s \in Syncers, BeginSync(s)
      PROVE  Versions'
  <2>1. [NoSync EXCEPT !.through = clock].listed = NoSync.listed
    BY DEF NoSync
  <2>. QED BY <1>3, <2>1, Nothing, GoVersions DEF BeginSync, Quiet, provider, Reads
<1>4. ASSUME NEW s \in Syncers, ReadCursor(s)
      PROVE  Versions'
  <2>1. [sync[s] EXCEPT !.cursor = cursor].listed = sync[s].listed
    BY DEF Synchronization
  <2>2. Reads("listing", [sync[s] EXCEPT !.cursor = cursor])
    BY <2>1 DEF Versions, Reads
  <2>. QED BY <1>4, <2>2, GoVersions DEF ReadCursor, Quiet, provider
<1>5. ASSUME NEW s \in Syncers, ListPage(s)
      PROVE  Versions'
  <2>. DEFINE v == sync[s]
              listed == [i \in Items |-> IF i \in Page(v) THEN item[i] ELSE v.listed[i]]
              read == [v EXCEPT !.listed = listed]
  <2>1. \A i \in Items : listed[i] \in {item[i], v.listed[i]}
    OBVIOUS
  <2>. HIDE DEF listed
  <2>2. /\ read.listed = listed /\ [read EXCEPT !.page = @ + 1].listed = listed
        /\ [read EXCEPT !.query = "open", !.page = 1].listed = listed
    BY DEF Synchronization
  <2>3. PICK p \in {"listing", "persisting"} : \E w : Go(s, p, w) /\ w.listed = listed
    <3>1. \/ Go(s, "listing", [read EXCEPT !.page = @ + 1])
          \/ Go(s, "listing", [read EXCEPT !.query = "open", !.page = 1])
          \/ Go(s, "persisting", read)
      BY <1>5 DEF ListPage, listed
    <3>. HIDE DEF read
    <3>. QED BY <2>2, <3>1
  <2>4. PICK w : Go(s, p, w) /\ w.listed = listed
    BY <2>3
  <2>5. \A i \in Items : w.listed[i] # Absent =>
          IsEarlier(stored[i], w.listed[i]) /\ IsEarlier(w.listed[i], item[i])
    BY <2>1, <2>4, EarlierFacts DEF Versions, Reads
  <2>. QED BY <1>5, <2>3, <2>4, <2>5, GoVersions DEF ListPage, Quiet, provider, Reads
<1>6. ASSUME NEW s \in Syncers, NEW i \in Items, ReadPrevious(s, i)
      PROVE  Versions'
  <2>. DEFINE v == [sync[s] EXCEPT !.listed[i] = Absent, !.number = i,
                                   !.current = sync[s].listed[i],
                                   !.previous = stored[i].state]
  <2>1. /\ v.number = i /\ v.current = sync[s].listed[i] /\ v.previous = stored[i].state
        /\ \A j \in Items : v.listed[j] \in {sync[s].listed[j], Absent}
    BY DEF Synchronization
  <2>2. Go(s, "upserting", v) /\ sync[s].listed[i] # Absent
    BY <1>6 DEF ReadPrevious
  <2>. HIDE DEF v
  <2>3. Reads("upserting", v)
    BY <2>1, <2>2 DEF Versions, Reads
  <2>. QED BY <1>6, <2>2, <2>3, GoVersions DEF ReadPrevious, Quiet, provider
<1>7. ASSUME NEW s \in Syncers, Upsert(s)
      PROVE  Versions'
  <2>. DEFINE v == sync[s]
              n == v.number
  <2>1. /\ n \in Items /\ v.current \in Reading /\ v.current # Absent
        /\ v.listed[n] = Absent /\ Reads("upserting", v)
    BY <1>7, Nothing DEF Upsert, TypeOK, ControlOK, Staged, Reading, Versions
  <2>2. /\ stored' = [stored EXCEPT ![n] = v.current]
        /\ item' = item /\ announced' = announced
    BY <1>7 DEF Upsert, provider
  <2>3. PICK p, w : /\ Go(s, p, w) /\ p \in {"persisting", "emitting"}
                    /\ w.listed = v.listed
                    /\ p = "emitting" => w.number = n /\ w.current = v.current
    <3>. DEFINE quiet == [v EXCEPT !.number = 0, !.current = Absent, !.previous = "ABSENT"]
                loud  == [v EXCEPT !.events = UpsertEvents(v), !.previous = "ABSENT"]
    <3>1. /\ quiet.listed = v.listed /\ loud.listed = v.listed
          /\ loud.number = n /\ loud.current = v.current
      BY DEF Synchronization
    <3>2. Go(s, "persisting", quiet) \/ Go(s, "emitting", loud)
      BY <1>7 DEF Upsert, UpsertEvents
    <3>. HIDE DEF quiet, loud
    <3>. QED BY <3>1, <3>2
  <2>4. \A t \in Syncers : pc'[t] = p /\ sync'[t] = w
    BY <2>3 DEF Go, OneSyncer, TypeOK, ControlOK
  <2>5. \A i \in Items : IsEarlier(stored'[i], item[i])
    BY <2>1, <2>2 DEF Versions, Reads
  <2>6. \A t \in Syncers : Reads(pc[t], sync[t])'
    BY <2>1, <2>2, <2>3, <2>4 DEF Versions, Reads
  <2>7. \A e \in announced :
          stored'[e.item] # Absent /\ e.updated <= stored'[e.item].updated
    <3>. SUFFICES ASSUME NEW e \in announced
                  PROVE  stored'[e.item] # Absent /\ e.updated <= stored'[e.item].updated
      OBVIOUS
    <3>1. e.item \in Items /\ e.updated \in Nat
      OBVIOUS
    <3>2. CASE e.item = n
      <4>1. stored[n] # Absent /\ e.updated <= stored[n].updated
        BY <3>2 DEF Versions
      <4>2. stored[n].updated <= v.current.updated
        BY <2>1, <4>1, EarlierFacts DEF Reads
      <4>3. stored[n] \in Reading
        BY <2>1
      <4>4. stored[n].updated \in Nat /\ v.current.updated \in Nat
        BY <2>1, <4>3, EarlierFacts
      <4>. QED BY <2>1, <2>2, <3>1, <3>2, <4>1, <4>2, <4>4
    <3>. QED BY <2>2, <3>1, <3>2 DEF Versions
  <2>. QED BY <2>2, <2>5, <2>6, <2>7 DEF Versions
<1>8. ASSUME NEW s \in Syncers, Emit(s)
      PROVE  Versions'
  <2>. DEFINE v == sync[s]
              e == [item |-> v.number, type |-> Head(v.events),
                    updated |-> v.current.updated]
  <2>1. /\ v.number \in Items /\ v.current \in Version /\ v.current # Absent
        /\ stored[v.number] = v.current
    BY <1>8, Nothing DEF Emit, TypeOK, ControlOK, Staged, Versions, Reads
  <2>2. PICK p, w : /\ Go(s, p, w) /\ p \in {"persisting", "emitting"}
                    /\ w.listed = v.listed
                    /\ p = "emitting" => w.number = v.number /\ w.current = v.current
    <3>. DEFINE done == [v EXCEPT !.number = 0, !.current = Absent, !.events = <<>>]
                more == [v EXCEPT !.events = Tail(@)]
    <3>1. /\ done.listed = v.listed /\ more.listed = v.listed
          /\ more.number = v.number /\ more.current = v.current
      BY DEF Synchronization
    <3>2. Go(s, "persisting", done) \/ Go(s, "emitting", more)
      BY <1>8 DEF Emit
    <3>. HIDE DEF done, more
    <3>. QED BY <3>1, <3>2
  <2>3. \A t \in Syncers : pc'[t] = p /\ sync'[t] = w
    BY <2>2 DEF Go, OneSyncer, TypeOK, ControlOK
  <2>4. announced' = announced \cup {e} /\ item' = item /\ stored' = stored
    BY <1>8 DEF Emit, provider
  <2>5. e.item = v.number /\ e.updated = v.current.updated /\ v.current.updated \in Nat
    BY <2>1 DEF Version
  <2>6. \A t \in Syncers : Reads(pc[t], sync[t])'
    BY <2>1, <2>2, <2>3, <2>4 DEF Versions, Reads
  <2>7. \A a \in announced' :
          stored[a.item] # Absent /\ a.updated <= stored[a.item].updated
    BY <2>1, <2>4, <2>5 DEF Versions
  <2>. QED BY <2>4, <2>6, <2>7 DEF Versions
<1>9. ASSUME NEW s \in Syncers, AdvanceCursor(s) \/ Crash(s)
      PROVE  Versions'
  BY <1>9, Nothing, GoVersions DEF AdvanceCursor, Advance, Crash, provider, Reads
<1>. QED BY <1>1, <1>2, <1>3, <1>4, <1>5, <1>6, <1>7, <1>8, <1>9 DEF Next, Step

-----------------------------------------------------------------------------
(* What subscribers know. *)

\* None of the events that v has to emit was emitted, and the next one is news.
Emits(p, v) ==
  p = "emitting" =>
    /\ \A e \in announced :
         e.item = v.number /\ e.updated = v.current.updated =>
           \A n \in DOMAIN v.events : v.events[n] # e.type
    /\ v.number \in lost \/ told[v.number] # Meaning(Head(v.events))

News == SubscribersAreCurrent /\ \A s \in Syncers : Emits(pc[s], sync[s])

LEMMA InitNews == Init => News
BY DEF Init, News, SubscribersAreCurrent, Absent, Emits

\* What is known stays true of every item but the one in progress.
LEMMA GoNews ==
  ASSUME OneSyncer, TypeOK, News, NEW s \in Syncers, NEW p, NEW v, Go(s, p, v),
         UNCHANGED <<stored, announced, told, lost>>,
         pc[s] # "emitting", p # "emitting"
  PROVE  News'
<1>1. /\ \A t \in Syncers : pc'[t] = p
      /\ \A t \in Syncers : pc[t] # "emitting"
  BY DEF Go, OneSyncer, TypeOK, ControlOK
<1>. QED BY <1>1 DEF News, SubscribersAreCurrent, InProgress, Emits

LEMMA StepNews ==
  ASSUME OneSyncer, TypeOK, Versions, News, [Next]_vars
  PROVE  News' /\ \A e \in announced' \ announced :
                     e.item \in lost \/ told[e.item] # Meaning(e.type)
<1>. /\ stored \in [Items -> Reading] /\ told \in [Items -> Known]
     /\ announced \subseteq [item: Items, type: Types, updated: Nat]
  BY DEF TypeOK, DataOK
<1>. \A s \in Syncers : sync[s] \in Synchronization
  BY DEF TypeOK, ControlOK
<1>1. CASE UNCHANGED vars \/ Tick \/ Provider
  <2>1. UNCHANGED <<pc, sync, stored, announced, told, lost>>
    BY <1>1, ProviderAlters DEF vars, Tick, Alter, history
  <2>. QED BY <2>1 DEF News, SubscribersAreCurrent, InProgress, Emits
<1>2. ASSUME NEW s \in Syncers,
             \/ BeginSync(s) \/ ReadCursor(s) \/ ListPage(s)
             \/ (\E i \in Items : ReadPrevious(s, i)) \/ AdvanceCursor(s)
      PROVE  News' /\ announced' = announced
  <2>1. UNCHANGED <<stored, announced, told, lost>> /\ pc[s] # "emitting"
    BY <1>2 DEF BeginSync, ReadCursor, ListPage, ReadPrevious, AdvanceCursor, Advance,
                Persisted, Quiet, history
  <2>2. \E p, v : Go(s, p, v) /\ p # "emitting"
    <3>1. CASE BeginSync(s) \/ ReadCursor(s)
      BY <3>1 DEF BeginSync, ReadCursor
    <3>2. CASE ListPage(s)
      BY <3>2 DEF ListPage
    <3>3. ASSUME NEW i \in Items, ReadPrevious(s, i)
          PROVE  \E v : Go(s, "upserting", v)
      BY <3>3 DEF ReadPrevious
    <3>4. CASE AdvanceCursor(s)
      BY <3>4 DEF AdvanceCursor, Advance
    <3>. QED BY <1>2, <3>1, <3>2, <3>3, <3>4
  <2>. QED BY <2>1, <2>2, GoNews
<1>3. ASSUME NEW s \in Syncers, Upsert(s)
      PROVE  News' /\ announced' = announced
  <2>. DEFINE v == sync[s]
              i == v.number
  <2>1. /\ i \in Items /\ v.current \in Version /\ v.current.state \in States
        /\ v.previous = stored[i].state /\ v.previous \in Known
        /\ IsEarlier(stored[i], v.current)
    BY <1>3 DEF Upsert, TypeOK, ControlOK, Staged, Version, Versions, Reads,
                Synchronization
  <2>2. /\ stored' = [stored EXCEPT ![i] = v.current]
        /\ UNCHANGED <<announced, lost>>
    BY <1>3 DEF Upsert
  <2>3. \A t \in Syncers : t = s /\ pc[t] = "upserting"
    BY <1>3 DEF Upsert, OneSyncer
  <2>4. \A j \in Items : j \in lost \/ told[j] = stored[j].state
    BY <2>3 DEF News, SubscribersAreCurrent, InProgress
  <2>5. CASE UpsertEvents(v) = <<>>
    <3>1. pc' = [pc EXCEPT ![s] = "persisting"]
      BY <1>3, <2>5 DEF Upsert, UpsertEvents, Go
    <3>2. told' = IF baseline(v) \/ v.previous = "ABSENT"
                  THEN [told EXCEPT ![i] = v.current.state] ELSE told
      BY <1>3, <2>5 DEF Upsert, UpsertEvents
    <3>3. \A t \in Syncers : pc'[t] = "persisting"
      BY <2>3, <3>1 DEF TypeOK, ControlOK
    <3>4. ~baseline(v) /\ v.previous # "ABSENT" => v.previous = v.current.state
      BY <2>5 DEF UpsertEvents, LifecycleEvents
    <3>5. i \in lost \/ told'[i] = v.current.state
      BY <2>1, <2>4, <3>2, <3>4
    <3>6. \A j \in Items \ {i} : told'[j] = told[j]
      BY <2>1, <3>2
    <3>7. SubscribersAreCurrent'
      BY <2>1, <2>2, <2>4, <3>5, <3>6 DEF SubscribersAreCurrent
    <3>. QED BY <2>2, <3>3, <3>7 DEF News, Emits
  <2>6. CASE UpsertEvents(v) # <<>>
    <3>. DEFINE w == [v EXCEPT !.events = UpsertEvents(v), !.previous = "ABSENT"]
    <3>1. /\ v.previous # v.current.state
          /\ UpsertEvents(v) \in EventsOf(v.current.state)
          /\ Meaning(Head(UpsertEvents(v))) # v.previous
      BY <2>1, <2>6, UpsertEventsMean
    <3>2. w.number = i /\ w.current = v.current /\ w.events = UpsertEvents(v)
      BY DEF Synchronization
    <3>3. Go(s, "emitting", w) /\ told' = told
      BY <1>3, <2>6 DEF Upsert, UpsertEvents
    <3>. HIDE DEF w
    <3>4. \A t \in Syncers : t = s /\ pc'[t] = "emitting" /\ sync'[t] = w
      BY <2>3, <3>3 DEF Go, TypeOK, ControlOK
    <3>5. SubscribersAreCurrent'
      BY <2>1, <2>2, <2>4, <3>2, <3>3, <3>4 DEF SubscribersAreCurrent, InProgress
    <3>6. \A e \in announced : e.item = i => e.updated # v.current.updated
      <4>1. stored[i] # v.current
        BY <2>1, <3>1
      <4>2. stored[i] # Absent => stored[i].updated < v.current.updated
        BY <2>1, <4>1 DEF IsEarlier
      <4>3. stored[i].updated \in Nat /\ v.current.updated \in Nat
        BY <2>1, EarlierFacts DEF Reading
      <4>. QED BY <4>2, <4>3 DEF Versions
    <3>7. i \in lost \/ told[i] # Meaning(Head(UpsertEvents(v)))
      BY <2>1, <2>4, <3>1
    <3>. QED BY <2>2, <3>2, <3>3, <3>4, <3>5, <3>6, <3>7 DEF News, Emits
  <2>. QED BY <2>5, <2>6
<1>4. ASSUME NEW s \in Syncers, Emit(s)
      PROVE  News' /\ \A e \in announced' \ announced :
                         e.item \in lost \/ told[e.item] # Meaning(e.type)
  <2>. DEFINE v == sync[s]
              i == v.number
              e == [item |-> i, type |-> Head(v.events), updated |-> v.current.updated]
  <2>1. /\ i \in Items /\ v.current \in Version /\ v.current.state \in States
        /\ v.events \in EventsOf(v.current.state)
        /\ stored[i] = v.current /\ pc[s] = "emitting"
    BY <1>4 DEF Emit, TypeOK, ControlOK, Staged, Version, Versions, Reads
  <2>2. Emits("emitting", v)
    BY <2>1 DEF News
  <2>3. PICK m \in DOMAIN v.events : v.events[m] = Head(v.events)
    BY <2>1, EventsLeft
  <2>4. e \notin announced
    BY <2>2, <2>3 DEF Emits
  <2>5. /\ announced' = announced \cup {e} /\ stored' = stored /\ lost' = lost \ {i}
        /\ told' = [told EXCEPT ![i] = Meaning(Head(v.events))]
    BY <1>4, <2>4 DEF Emit
  <2>6. \A t \in Syncers : t = s
    BY DEF OneSyncer
  <2>7. \A j \in Items \ {i} : j \in lost' \/ told'[j] = stored'[j].state
    BY <2>1, <2>5, <2>6 DEF News, SubscribersAreCurrent, InProgress
  <2>8. i \in lost \/ told[i] # Meaning(Head(v.events))
    BY <2>2 DEF Emits
  <2>9. CASE Tail(v.events) = <<>>
    <3>1. pc' = [pc EXCEPT ![s] = "persisting"]
      BY <1>4, <2>9 DEF Emit, Go
    <3>2. \A t \in Syncers : pc'[t] = "persisting"
      BY <2>6, <3>1 DEF TypeOK, ControlOK
    <3>3. Meaning(Head(v.events)) = v.current.state
      BY <2>1, <2>9, EventsLeft
    <3>4. SubscribersAreCurrent'
      BY <2>1, <2>5, <2>7, <3>3 DEF SubscribersAreCurrent
    <3>. QED BY <2>5, <2>8, <3>2, <3>4 DEF News, Emits
  <2>10. CASE Tail(v.events) # <<>>
    <3>. DEFINE w == [v EXCEPT !.events = Tail(@)]
    <3>1. w.number = i /\ w.current = v.current /\ w.events = Tail(v.events)
      BY DEF Synchronization
    <3>2. Go(s, "emitting", w)
      BY <1>4, <2>10 DEF Emit
    <3>. HIDE DEF w
    <3>3. \A t \in Syncers : t = s /\ pc'[t] = "emitting" /\ sync'[t] = w
      BY <2>6, <3>2 DEF Go, TypeOK, ControlOK
    <3>4. SubscribersAreCurrent'
      BY <2>1, <2>7, <3>1, <3>3 DEF SubscribersAreCurrent, InProgress
    <3>5. /\ \A n \in DOMAIN Tail(v.events) : Tail(v.events)[n] # Head(v.events)
          /\ Meaning(Head(Tail(v.events))) # Meaning(Head(v.events))
      <4>1. \A events \in EventsOf(v.current.state) :
              Tail(events) # <<>> =>
                /\ \A n \in DOMAIN Tail(events) : Tail(events)[n] # Head(events)
                /\ Meaning(Head(Tail(events))) # Meaning(Head(events))
        BY ONLY <2>1, EventsLeft
      <4>. QED BY ONLY <2>1, <2>10, <4>1
    <3>6. ASSUME NEW a \in announced', a.item = i, a.updated = v.current.updated,
                 NEW n \in DOMAIN Tail(v.events)
          PROVE  Tail(v.events)[n] # a.type
      <4>1. CASE a = e
        BY <3>5, <4>1
      <4>2. CASE a \in announced
        <5>1. \A k \in DOMAIN v.events : v.events[k] # a.type
          BY <2>2, <3>6, <4>2 DEF Emits
        <5>2. PICK k \in DOMAIN v.events : Tail(v.events)[n] = v.events[k]
          BY <2>1, <3>6, EventsLeft
        <5>. QED BY <5>1, <5>2
      <4>. QED BY <2>5, <3>6, <4>1, <4>2
    <3>7. told'[i] # Meaning(Head(Tail(v.events)))
      BY <2>1, <2>5, <3>5
    <3>8. /\ \A a \in announced' :
               a.item = w.number /\ a.updated = w.current.updated =>
                 \A n \in DOMAIN w.events : w.events[n] # a.type
          /\ told'[w.number] # Meaning(Head(w.events))
      BY <3>1, <3>6, <3>7
    <3>9. \A t \in Syncers : Emits(pc[t], sync[t])'
      BY <3>3, <3>8 DEF Emits
    <3>. QED BY <2>5, <2>8, <3>4, <3>9 DEF News
  <2>. QED BY <2>9, <2>10
<1>5. ASSUME NEW s \in Syncers, Crash(s)
      PROVE  News' /\ announced' = announced
  <2>1. \A t \in Syncers : t = s /\ pc'[t] = "idle"
    BY <1>5 DEF Crash, Go, OneSyncer, TypeOK, ControlOK
  <2>2. UNCHANGED <<stored, announced, told>>
        /\ lost' = IF pc[s] = "emitting" THEN lost \cup {sync[s].number} ELSE lost
    BY <1>5 DEF Crash
  <2>. QED BY <2>1, <2>2 DEF News, SubscribersAreCurrent, InProgress, Emits
<1>. QED BY <1>1, <1>2, <1>3, <1>4, <1>5 DEF Next, Step

-----------------------------------------------------------------------------
(* Pages. *)

Rank(v, i) == Cardinality({j \in Listed(v) : Before(j, i)})

\* Ranks without gaps: n of them precede a rank that is n above lo.
LEMMA RanksFill ==
  ASSUME NEW L, IsFiniteSet(L), NEW rank \in [L -> 0 .. Cardinality(L) - 1],
         \A i, j \in L : i # j => rank[i] # rank[j],
         NEW lo \in Nat, NEW n \in Nat, NEW k \in L, lo + n <= rank[k]
  PROVE  n <= Cardinality({i \in L : lo <= rank[i] /\ rank[i] < lo + n})
<1>. DEFINE N == Cardinality(L)
            P == {i \in L : lo <= rank[i] /\ rank[i] < lo + n}
<1>1. N \in Nat /\ rank \in [L -> 0 .. N - 1] /\ rank[k] \in Nat /\ rank[k] < N
  BY FS_CardinalityType
<1>2. IsFiniteSet(P) /\ Cardinality(P) \in Nat
  <2>1. P \in SUBSET L
    OBVIOUS
  <2>. QED BY <2>1, FS_Subset, FS_CardinalityType
<1>3. \A r \in 0 .. N - 1 : \E i \in L : rank[i] = r
  <2>. SUFFICES ASSUME NEW r \in 0 .. N - 1, \A i \in L : rank[i] # r
                PROVE  FALSE
    OBVIOUS
  <2>. HIDE DEF N
  <2>. DEFINE R == (0 .. N - 1) \ {r}
  <2>1. IsFiniteSet(0 .. N - 1) /\ Cardinality(0 .. N - 1) = N
    <3>1. 0 \in Int /\ N - 1 \in Int /\ ~(0 > N - 1)
      BY <1>1
    <3>. QED BY ONLY <1>1, <3>1, FS_Interval
  <2>2. IsFiniteSet(R) /\ Cardinality(R) = N - 1
    <3>1. /\ IsFiniteSet((0 .. N - 1) \ {r})
          /\ Cardinality((0 .. N - 1) \ {r}) = Cardinality(0 .. N - 1) - 1
      BY <2>1, FS_RemoveElement
    <3>. QED BY <2>1, <3>1
  <2>3. rank \in [L -> R]
    BY <1>1
  <2>4. Cardinality(R) < Cardinality(L)
    BY <1>1, <2>2 DEF N
  <2>. HIDE DEF R
  <2>. QED BY <2>2, <2>3, <2>4, FS_PigeonHole
<1>. DEFINE S == lo .. lo + n - 1
            at == [r \in S |-> CHOOSE i \in L : rank[i] = r]
<1>4. \A r \in S : at[r] \in L /\ rank[at[r]] = r
  BY <1>1, <1>3
<1>5. IsFiniteSet(S) /\ Cardinality(S) = n
  <2>1. lo \in Int /\ lo + n - 1 \in Int
    OBVIOUS
  <2>2. /\ IsFiniteSet(lo .. lo + n - 1)
        /\ Cardinality(lo .. lo + n - 1) = IF lo > lo + n - 1 THEN 0 ELSE lo + n - 1 - lo + 1
    BY ONLY <2>1, FS_Interval
  <2>. QED BY <2>2
<1>6. at \in [S -> P] /\ \A r, q \in S : r # q => at[r] # at[q]
  BY <1>4
<1>7. CASE Cardinality(P) < n
  <2>. HIDE DEF P, S, at
  <2>. QED BY <1>2, <1>5, <1>6, <1>7, FS_PigeonHole
<1>. QED BY <1>2, <1>7

LEMMA ListedIsFinite ==
  ASSUME NEW v \in Synchronization, NEW i
  PROVE  /\ IsFiniteSet(Listed(v)) /\ Cardinality(Listed(v)) \in Nat
         /\ IsFiniteSet({j \in Listed(v) : Before(j, i)})
         /\ Rank(v, i) \in Nat
<1>1. Listed(v) \in SUBSET Items /\ {j \in Listed(v) : Before(j, i)} \in SUBSET Items
  BY DEF Listed
<1>. QED BY <1>1, FS_Subset, FS_CardinalityType DEF Rank

LEMMA PagesCount ==
  ASSUME NEW v \in Synchronization
  PROVE  /\ (v.page - 1) * PageSize \in Nat
         /\ v.page * PageSize = (v.page - 1) * PageSize + PageSize
         /\ v.page * PageSize \in Nat
<1>1. v.page \in Nat \ {0}
  BY DEF Synchronization
<1>. QED BY <1>1

\* Ranks in a listing are different.
LEMMA RanksDiffer ==
  ASSUME TypeOK, NEW v \in Synchronization, NEW i \in Listed(v), NEW j \in Listed(v),
         Before(i, j)
  PROVE  Rank(v, i) < Rank(v, j)
<1>. DEFINE I == {k \in Listed(v) : Before(k, i)}
            J == {k \in Listed(v) : Before(k, j)}
<1>1. \A k \in Listed(v) : k \in Nat /\ item[k].updated \in Nat
  BY EarlierFacts DEF Listed, TypeOK, DataOK
<1>2. I \in SUBSET J /\ i \in J /\ i \notin I
  BY <1>1 DEF Before
<1>3. IsFiniteSet(J) /\ Cardinality(J) \in Nat /\ Cardinality(I) \in Nat
  BY ListedIsFinite DEF Rank
<1>4. Cardinality(I) <= Cardinality(J) /\ Cardinality(J) # Cardinality(I)
  <2>. HIDE DEF I, J
  <2>. QED BY <1>2, <1>3, FS_Subset
<1>. QED BY <1>3, <1>4 DEF Rank

\* After a page that is not full, nothing is listed.
LEMMA LastPage ==
  ASSUME TypeOK, NEW v \in Synchronization, Cardinality(Page(v)) < PageSize,
         NEW i \in Listed(v)
  PROVE  Rank(v, i) < v.page * PageSize
<1>. DEFINE L == Listed(v)
            rank == [k \in L |-> Rank(v, k)]
            lo == (v.page - 1) * PageSize
<1>1. v.page \in Nat \ {0} /\ lo \in Nat /\ v.page * PageSize = lo + PageSize
  BY DEF Synchronization
<1>2. \A k \in L : Rank(v, k) \in 0 .. Cardinality(L) - 1
  <2>. SUFFICES ASSUME NEW k \in L
                PROVE  Rank(v, k) \in 0 .. Cardinality(L) - 1
    OBVIOUS
  <2>. DEFINE K == {j \in L : Before(j, k)}
  <2>1. K \in SUBSET L /\ k \notin K
    BY EarlierFacts DEF Before, Listed, TypeOK, DataOK
  <2>2. Cardinality(K) <= Cardinality(L) /\ Cardinality(L) # Cardinality(K)
    <3>. HIDE DEF K, L
    <3>1. IsFiniteSet(L)
      BY ListedIsFinite DEF L
    <3>. QED BY <2>1, <3>1, FS_Subset
  <2>. QED BY <2>2, ListedIsFinite DEF Rank
<1>3. \A j, k \in L : j # k => Before(j, k) \/ Before(k, j)
  <2>1. \A k \in L : k \in Nat /\ item[k].updated \in Nat
    BY EarlierFacts DEF Listed, TypeOK, DataOK
  <2>. QED BY <2>1 DEF Before
<1>4. \A j, k \in L : j # k => Rank(v, j) # Rank(v, k)
  BY <1>2, <1>3, RanksDiffer
<1>5. Page(v) = {k \in L : lo <= rank[k] /\ rank[k] < lo + PageSize}
  BY <1>1 DEF Page, Rank
<1>6. CASE lo + PageSize <= Rank(v, i)
  <2>1. IsFiniteSet(L)
    BY ListedIsFinite
  <2>2. rank \in [L -> 0 .. Cardinality(L) - 1] /\ \A j, k \in L : j # k => rank[j] # rank[k]
    BY <1>2, <1>4
  <2>3. lo + PageSize <= rank[i] /\ i \in L /\ PageSize \in Nat
    BY <1>6
  <2>. HIDE DEF L, rank, lo
  <2>4. PageSize <= Cardinality({k \in L : lo <= rank[k] /\ rank[k] < lo + PageSize})
    BY ONLY <1>1, <2>1, <2>2, <2>3, RanksFill
  <2>5. Cardinality(Page(v)) \in Nat
    <3>1. Page(v) \in SUBSET Items
      BY DEF Page, Listed
    <3>. QED BY <3>1, FS_Subset, FS_CardinalityType
  <2>. QED BY <1>5, <2>4, <2>5
<1>7. Rank(v, i) \in Nat
  BY ListedIsFinite
<1>. QED BY <1>1, <1>6, <1>7

-----------------------------------------------------------------------------
(* What the cursor covers. *)

\* The items that v owes the cursor it sets: those of its window that have not
\* changed since it began.
Owed(v, i) ==
  /\ item[i] # Absent
  /\ real[i] < v.through
  /\ item[i].updated >= UpdatedAfter(v)

\* The window of v at stage p is of the past and begins at the cursor.
Window(p, v) ==
  /\ v.through <= clock
  /\ p \notin {"idle", "window"} => v.cursor = cursor
  /\ p = "window" => v.query = "recent" /\ v.page = 1

\* Whatever moves the pages, they have passed no item that is owed; and what was
\* listed is stored.
Covers(p, v) ==
  \A i \in Items :
    Owed(v, i) =>
      /\ p = "listing" /\ (v.query = "open" \/ Rank(v, i) < (v.page - 1) * PageSize)
           => v.listed[i] = item[i]
      /\ p \in {"persisting", "upserting", "emitting"}
           => \/ stored[i] = item[i]
              \/ v.listed[i] = item[i]
              \/ p = "upserting" /\ v.number = i /\ v.current = item[i]

\* The inductive invariant.  Stamps lag by Skew at most.
Coverage ==
  /\ \A i \in Items : real[i] <= clock /\ (item[i] # Absent => real[i] - Skew <= item[i].updated)
  /\ cursor # NoCursor => cursor <= clock
  /\ first = NoCursor <=> cursor = NoCursor
  /\ \A s \in Syncers : Window(pc[s], sync[s]) /\ Covers(pc[s], sync[s])
  /\ CursorCoversChanges

LEMMA InitCoverage == Init => Coverage
<1> SUFFICES ASSUME Init PROVE Coverage
  OBVIOUS
<1>1. \A i \in Items : real[i] <= clock
                      /\ (item[i] # Absent => real[i] - Skew <= item[i].updated)
  <2>. SUFFICES ASSUME NEW i \in Items
                PROVE  /\ item[i].updated <= clock
                       /\ item[i] # Absent => item[i].updated - Skew <= item[i].updated
    BY DEF Init
  <2>1. item[i].updated \in 0 .. Start
    BY DEF Init, Absent
  <2>. QED BY <2>1 DEF Init
<1>. QED BY <1>1 DEF Init, Coverage, Window, Covers, CursorCoversChanges, NoSync

\* A synchronization that goes on keeps the rest.
LEMMA GoCoverage ==
  ASSUME OneSyncer, TypeOK, Coverage, NEW s \in Syncers, NEW p, NEW v, Go(s, p, v),
         UNCHANGED <<clock, item, real, stored, cursor, first>>,
         Window(p, v), Covers(p, v)
  PROVE  Coverage'
<1>1. \A t \in Syncers : pc'[t] = p /\ sync'[t] = v
  BY DEF Go, OneSyncer, TypeOK, ControlOK
<1>2. \A i \in Items : Owed(v, i)' <=> Owed(v, i)
  BY DEF Owed, UpdatedAfter, baseline
<1>3. \A i \in Items : Rank(v, i)' = Rank(v, i)
  BY DEF Rank, Listed, Before, UpdatedAfter, baseline
<1>4. \A t \in Syncers : Window(pc[t], sync[t])' /\ Covers(pc[t], sync[t])'
  <2>1. Window(p, v)'
    BY DEF Window
  <2>2. Covers(p, v)'
    BY <1>2, <1>3 DEF Covers
  <2>. QED BY <1>1, <2>1, <2>2 DEF Window, Covers
<1>. QED BY <1>4 DEF Coverage, CursorCoversChanges, InScope

\* A page takes in what is owed and ranks in it; if it is not full, nothing is left.
LEMMA PageCovers ==
  ASSUME TypeOK, NEW v \in Synchronization, Covers("listing", v),
         NEW i \in Items, Owed(v, i), v.listed[i] # item[i], i \notin Page(v)
  PROVE  /\ v.query = "recent" /\ v.page * PageSize <= Rank(v, i)
         /\ ~(Cardinality(Page(v)) < PageSize)
<1>1. v.query = "recent" /\ ~(Rank(v, i) < (v.page - 1) * PageSize)
  BY DEF Covers, Synchronization
<1>2. i \in Listed(v)
  BY <1>1 DEF Listed, Owed
<1>3. Rank(v, i) \in Nat
  BY ListedIsFinite
<1>4. (v.page - 1) * PageSize \in Nat /\ v.page * PageSize \in Nat
  BY PagesCount
<1>5. ~(Rank(v, i) < v.page * PageSize)
  BY <1>1, <1>2, <1>3, <1>4 DEF Page, Rank
<1>6. ~(Cardinality(Page(v)) < PageSize)
  BY <1>2, <1>5, LastPage
<1>7. v.page * PageSize <= Rank(v, i)
  BY ONLY <1>3, <1>4, <1>5
<1>. QED BY <1>1, <1>6, <1>7

\* What changes at the provider moves what is owed no nearer to the first page.
LEMMA AlterKeepsCovered ==
  ASSUME TypeOK, Coverage, NEW j \in Items, NEW a \in Version, Alter(j, a),
         NEW s \in Syncers, NEW v, v = sync[s]
  PROVE  Covers(pc[s], v)'
<1>1. /\ v \in Synchronization /\ v.through <= clock /\ v.through \in Nat
      /\ item \in [Items -> Reading] /\ clock \in Nat
  BY DEF TypeOK, ControlOK, DataOK, Coverage, Window, Synchronization
<1>2. /\ item' = [item EXCEPT ![j] = a] /\ real' = [real EXCEPT ![j] = clock]
      /\ item[j] = Absent \/ a.updated > item[j].updated
      /\ pc' = pc /\ sync' = sync /\ stored' = stored
  BY DEF Alter
<1>. SUFFICES ASSUME NEW i \in Items, Owed(v, i)'
              PROVE  /\ pc[s] = "listing"
                          /\ (v.query = "open" \/ Rank(v, i)' < (v.page - 1) * PageSize)
                            => v.listed[i] = item'[i]
                     /\ pc[s] \in {"persisting", "upserting", "emitting"}
                          => \/ stored[i] = item'[i]
                             \/ v.listed[i] = item'[i]
                             \/ pc[s] = "upserting" /\ v.number = i /\ v.current = item'[i]
  BY <1>2 DEF Covers
<1>3. i # j
  BY <1>1, <1>2 DEF Owed, TypeOK, DataOK
<1>4. item'[i] = item[i] /\ Owed(v, i)
  BY <1>1, <1>2, <1>3 DEF Owed, UpdatedAfter, baseline, TypeOK, DataOK
<1>5. Covers(pc[s], v)
  BY DEF Coverage
<1>6. v.query = "recent" => Rank(v, i) <= Rank(v, i)'
  <2>. SUFFICES ASSUME v.query = "recent" PROVE Rank(v, i) <= Rank(v, i)'
    OBVIOUS
  <2>. DEFINE K == {k \in Listed(v) : Before(k, i)}
              L == {k \in Items : /\ item'[k] # Absent
                                  /\ item'[k].updated >= UpdatedAfter(v)
                                  /\ \/ item'[k].updated > item[i].updated
                                     \/ item'[k].updated = item[i].updated /\ k < i}
  <2>1. Rank(v, i)' = Cardinality(L)
    BY <1>2, <1>4 DEF Rank, Listed, Before, UpdatedAfter, baseline
  <2>2. UpdatedAfter(v) \in Int
    BY <1>1 DEF UpdatedAfter, baseline, Synchronization
  <2>3. \A k \in Items \ {j} : item'[k] = item[k]
    BY <1>1, <1>2
  <2>4. item'[j] = a /\ a # Absent /\ a.updated \in Nat /\ item[j].updated \in Nat
        /\ item[i].updated \in Nat
    <3>1. item'[j] = a /\ item[i] \in Reading /\ item[j] \in Reading
      BY <1>1, <1>2
    <3>2. a \in Reading
      BY DEF Reading
    <3>3. a # Absent
      BY Nothing
    <3>4. \A b \in Reading : b.updated \in Nat
      BY EarlierFacts
    <3>. QED BY <3>1, <3>2, <3>3, <3>4
  <2>5. K \in SUBSET L
    BY <1>2, <2>2, <2>3, <2>4 DEF Listed, Before
  <2>6. L \in SUBSET Items
    OBVIOUS
  <2>. HIDE DEF K, L
  <2>7. IsFiniteSet(L)
    BY <2>6, FS_Subset
  <2>. QED BY <2>1, <2>5, <2>7, FS_Subset DEF Rank, K
<1>7. Rank(v, i) \in Nat /\ Rank(v, i)' \in Nat /\ (v.page - 1) * PageSize \in Nat
  <2>1. Rank(v, i) \in Nat /\ (v.page - 1) * PageSize \in Nat
    BY <1>1, ListedIsFinite, PagesCount
  <2>2. {k \in Listed(v) : Before(k, i)}' \in SUBSET Items
    BY DEF Listed
  <2>. QED BY <2>1, <2>2, FS_Subset, FS_CardinalityType DEF Rank
<1>8. v.query \in {"recent", "open"}
  BY <1>1 DEF Synchronization
<1>. QED BY <1>4, <1>5, <1>6, <1>7, <1>8 DEF Covers

LEMMA StepCoverage ==
  ASSUME OneSyncer, TypeOK, Versions, Coverage, [Next]_vars
  PROVE  Coverage'
<1>. /\ item \in [Items -> Reading] /\ stored \in [Items -> Reading]
     /\ real \in [Items -> Nat] /\ clock \in Nat /\ cursor \in Nat \cup {NoCursor}
     /\ first \in Nat \cup {NoCursor}
  BY DEF TypeOK, DataOK
<1>a. \A s \in Syncers : sync[s] \in Synchronization
  BY DEF TypeOK, ControlOK
<1>b. \A v, w, i : w.through = v.through /\ w.cursor = v.cursor =>
        (Owed(w, i) <=> Owed(v, i)) /\ UpdatedAfter(w) = UpdatedAfter(v)
  BY DEF Owed, UpdatedAfter, baseline
<1>1. CASE UNCHANGED vars
  <2>1. \A v, i : Rank(v, i)' = Rank(v, i) /\ (Owed(v, i)' <=> Owed(v, i))
    BY <1>1 DEF vars, provider, Rank, Listed, Before, UpdatedAfter, baseline, Owed
  <2>2. \A p, v : (Window(p, v)' <=> Window(p, v)) /\ (Covers(p, v)' <=> Covers(p, v))
    BY <1>1, <2>1 DEF vars, provider, Window, Covers
  <2>. QED BY <1>1, <2>2 DEF vars, provider, history, Coverage, CursorCoversChanges,
                             InScope
<1>2. CASE Tick
  <2>1. UNCHANGED <<item, real, stored, cursor, first, pc, sync>> /\ clock' = clock + 1
    BY <1>2 DEF Tick, provider, history
  <2>2. \A v, i : Rank(v, i)' = Rank(v, i) /\ (Owed(v, i)' <=> Owed(v, i))
    BY <2>1 DEF Rank, Listed, Before, UpdatedAfter, baseline, Owed
  <2>3. \A s \in Syncers : Covers(pc[s], sync[s])'
    BY <2>1, <2>2 DEF Coverage, Covers
  <2>4. \A s \in Syncers : Window(pc[s], sync[s])'
    BY <1>a, <2>1 DEF Coverage, Window, Synchronization
  <2>. QED BY <2>1, <2>3, <2>4 DEF Coverage, CursorCoversChanges, InScope
<1>3. CASE Provider
  <2>1. PICK j \in Items, a \in Version : Alter(j, a) /\ a.updated \in clock - Skew .. clock
    BY <1>3, ProviderAlters
  <2>2. /\ item' = [item EXCEPT ![j] = a] /\ real' = [real EXCEPT ![j] = clock]
        /\ UNCHANGED <<clock, stored, cursor, first, pc, sync>>
    BY <2>1 DEF Alter, history
  <2>3. \A s \in Syncers : Covers(pc[s], sync[s])'
    BY <2>1, <2>2, AlterKeepsCovered
  <2>4. \A i \in Items : real'[i] <= clock
                        /\ (item'[i] # Absent => real'[i] - Skew <= item'[i].updated)
    BY <2>1, <2>2 DEF Coverage
  <2>5. CursorCoversChanges'
    <3>. SUFFICES ASSUME NEW i \in Items, cursor # NoCursor, InScope(i)', real'[i] < cursor
                  PROVE  stored[i] = item'[i]
      BY <2>2 DEF CursorCoversChanges
    <3>1. i # j
      BY <2>2 DEF Coverage
    <3>. QED BY <2>2, <3>1 DEF Coverage, CursorCoversChanges, InScope
  <2>. QED BY <2>2, <2>3, <2>4, <2>5 DEF Coverage, Window
<1>4. ASSUME NEW s \in Syncers, BeginSync(s)
      PROVE  Coverage'
  <2>. DEFINE v == [NoSync EXCEPT !.through = clock]
  <2>1. v.through = clock /\ v.query = "recent" /\ v.page = 1
    BY DEF NoSync
  <2>2. Go(s, "window", v)
    BY <1>4 DEF BeginSync
  <2>. HIDE DEF v
  <2>3. Window("window", v) /\ Covers("window", v)
    BY <2>1 DEF Window, Covers
  <2>. QED BY <1>4, <2>2, <2>3, GoCoverage DEF BeginSync, Quiet, provider, history
<1>5. ASSUME NEW s \in Syncers, ReadCursor(s)
      PROVE  Coverage'
  <2>. DEFINE v == [sync[s] EXCEPT !.cursor = cursor]
  <2>1. /\ v \in Synchronization /\ v.query = "recent" /\ v.page = 1 /\ v.cursor = cursor
        /\ v.through <= clock
    BY <1>5, <1>a DEF ReadCursor, Coverage, Window, Synchronization
  <2>2. Go(s, "listing", v)
    BY <1>5 DEF ReadCursor
  <2>. HIDE DEF v
  <2>3. \A i : ~(Rank(v, i) < (v.page - 1) * PageSize)
    <3>1. (v.page - 1) * PageSize = 0
      BY <2>1
    <3>2. \A i : Rank(v, i) \in Nat
      BY <2>1, ListedIsFinite
    <3>. QED BY <3>1, <3>2
  <2>. QED BY <1>5, <2>1, <2>2, <2>3, GoCoverage
           DEF ReadCursor, Quiet, provider, history, Window, Covers
<1>6. ASSUME NEW s \in Syncers, ListPage(s)
      PROVE  Coverage'
  <2>. DEFINE v == sync[s]
              listed == [i \in Items |-> IF i \in Page(v) THEN item[i] ELSE v.listed[i]]
              read == [v EXCEPT !.listed = listed]
              next == [read EXCEPT !.page = @ + 1]
              open == [read EXCEPT !.query = "open", !.page = 1]
  <2>1. v \in Synchronization /\ pc[s] = "listing"
        /\ Window("listing", v) /\ Covers("listing", v)
    BY <1>6, <1>a DEF ListPage, Coverage
  <2>2. \A i \in Items : listed[i] = IF i \in Page(v) THEN item[i] ELSE v.listed[i]
    OBVIOUS
  <2>. HIDE DEF listed
  <2>3. /\ read.listed = listed /\ read.through = v.through /\ read.cursor = v.cursor
        /\ next.listed = listed /\ next.through = v.through /\ next.cursor = v.cursor
        /\ next.query = v.query /\ next.page = v.page + 1
        /\ open.listed = listed /\ open.through = v.through /\ open.cursor = v.cursor
    BY <2>1 DEF Synchronization
  <2>4. \/ Cardinality(Page(v)) = PageSize /\ Go(s, "listing", next)
        \/ Cardinality(Page(v)) < PageSize /\ Go(s, "listing", open)
        \/ Cardinality(Page(v)) < PageSize /\ Go(s, "persisting", read)
    BY <1>6 DEF ListPage, listed
  <2>5. UNCHANGED <<clock, item, real, stored, cursor, first>>
    BY <1>6 DEF ListPage, Quiet, provider, history
  <2>6. \A i \in Items : Owed(v, i) /\ listed[i] # item[i] =>
          /\ v.query = "recent" /\ v.page * PageSize <= Rank(v, i)
          /\ ~(Cardinality(Page(v)) < PageSize)
    BY <2>1, <2>2, PageCovers
  <2>. HIDE DEF read, next, open
  <2>7. CASE Go(s, "listing", next)
    <3>1. Window("listing", next)
      BY <2>1, <2>3 DEF Window
    <3>2. \A i : Rank(next, i) = Rank(v, i)
      BY <1>b, <2>3 DEF Rank, Listed
    <3>3. \A i \in Items : Owed(v, i) /\ listed[i] # item[i] =>
            ~(next.query = "open" \/ Rank(next, i) < (next.page - 1) * PageSize)
      <4>1. \A i : Rank(v, i) \in Nat
        BY <2>1, ListedIsFinite
      <4>2. (next.page - 1) * PageSize = v.page * PageSize /\ v.page * PageSize \in Nat
        BY <2>1, <2>3, PagesCount DEF Synchronization
      <4>. QED BY <2>3, <2>6, <3>2, <4>1, <4>2
    <3>4. Covers("listing", next)
      BY <1>b, <2>3, <3>3 DEF Covers
    <3>. QED BY <2>5, <2>7, <3>1, <3>4, GoCoverage
  <2>8. CASE Cardinality(Page(v)) < PageSize /\ Go(s, "listing", open)
    <3>1. Window("listing", open)
      BY <2>1, <2>3 DEF Window
    <3>2. Covers("listing", open)
      BY <1>b, <2>3, <2>6, <2>8 DEF Covers
    <3>. QED BY <2>5, <2>8, <3>1, <3>2, GoCoverage
  <2>9. CASE Cardinality(Page(v)) < PageSize /\ Go(s, "persisting", read)
    <3>1. Window("persisting", read)
      BY <2>1, <2>3 DEF Window
    <3>2. Covers("persisting", read)
      BY <1>b, <2>3, <2>6, <2>9 DEF Covers
    <3>. QED BY <2>5, <2>9, <3>1, <3>2, GoCoverage
  <2>. QED BY <2>4, <2>7, <2>8, <2>9
<1>7. ASSUME NEW s \in Syncers, NEW i \in Items, ReadPrevious(s, i)
      PROVE  Coverage'
  <2>. DEFINE v == sync[s]
              w == [v EXCEPT !.listed[i] = Absent, !.number = i,
                             !.current = v.listed[i], !.previous = stored[i].state]
  <2>1. /\ w.through = v.through /\ w.cursor = v.cursor /\ w.number = i
        /\ w.current = v.listed[i] /\ \A j \in Items \ {i} : w.listed[j] = v.listed[j]
    BY <1>a DEF Synchronization
  <2>2. Go(s, "upserting", w) /\ pc[s] = "persisting"
    BY <1>7 DEF ReadPrevious
  <2>. HIDE DEF w
  <2>3. Window("upserting", w)
    BY <2>1, <2>2 DEF Coverage, Window
  <2>4. Covers("upserting", w)
    BY <1>b, <2>1, <2>2 DEF Coverage, Covers
  <2>. QED BY <1>7, <2>2, <2>3, <2>4, GoCoverage DEF ReadPrevious, Quiet, provider, history
<1>8. ASSUME NEW s \in Syncers, Upsert(s)
      PROVE  Coverage'
  <2>. DEFINE v == sync[s]
              n == v.number
  <2>1. /\ n \in Items /\ v.current \in Reading
        /\ v.listed[n] = Absent /\ Reads("upserting", v) /\ pc[s] = "upserting"
        /\ v \in Synchronization
    BY <1>8, <1>a DEF Upsert, TypeOK, ControlOK, Staged, Reading, Versions
  <2>2. /\ stored' = [stored EXCEPT ![n] = v.current]
        /\ UNCHANGED <<clock, item, real, cursor, first>>
    BY <1>8 DEF Upsert, provider
  <2>3. PICK p, w : /\ Go(s, p, w) /\ p \in {"persisting", "emitting"}
                    /\ w.listed = v.listed /\ w.through = v.through /\ w.cursor = v.cursor
    <3>. DEFINE quiet == [v EXCEPT !.number = 0, !.current = Absent, !.previous = "ABSENT"]
                loud  == [v EXCEPT !.events = UpsertEvents(v), !.previous = "ABSENT"]
    <3>1. /\ quiet.listed = v.listed /\ loud.listed = v.listed
          /\ quiet.through = v.through /\ loud.through = v.through
          /\ quiet.cursor = v.cursor /\ loud.cursor = v.cursor
      BY <2>1 DEF Synchronization
    <3>2. Go(s, "persisting", quiet) \/ Go(s, "emitting", loud)
      BY <1>8 DEF Upsert, UpsertEvents
    <3>. HIDE DEF quiet, loud
    <3>. QED BY <3>1, <3>2
  <2>4. \A t \in Syncers : pc'[t] = p /\ sync'[t] = w
    BY <2>3 DEF Go, OneSyncer, TypeOK, ControlOK
  <2>5. \A i \in Items : stored[i] = item[i] => stored'[i] = item[i]
    <3>1. stored[n] = item[n] => v.current = item[n]
      BY <2>1, EarlierFacts DEF Reads
    <3>. QED BY <2>1, <2>2, <3>1
  <2>6. \A i : Owed(w, i)' <=> Owed(v, i)
    BY <2>2, <2>3 DEF Owed, UpdatedAfter, baseline
  <2>7. Covers("upserting", v) /\ Window("upserting", v)
    BY <2>1 DEF Coverage
  <2>8. ASSUME NEW i \in Items, Owed(v, i)
        PROVE  stored'[i] = item[i] \/ w.listed[i] = item[i]
    <3>1. CASE i = n
      BY <2>1, <2>2, <2>3, <2>5, <2>7, <2>8, <3>1 DEF Covers, Owed
    <3>2. CASE i # n
      BY <2>1, <2>2, <2>3, <2>7, <2>8, <3>2 DEF Covers
    <3>. QED BY <3>1, <3>2
  <2>9. \A t \in Syncers : Covers(pc[t], sync[t])'
    BY <2>2, <2>3, <2>4, <2>6, <2>8 DEF Covers
  <2>10. \A t \in Syncers : Window(pc[t], sync[t])'
    BY <2>2, <2>3, <2>4, <2>7 DEF Window
  <2>11. CursorCoversChanges'
    BY <2>2, <2>5 DEF Coverage, CursorCoversChanges, InScope
  <2>. QED BY <2>2, <2>9, <2>10, <2>11 DEF Coverage
<1>9. ASSUME NEW s \in Syncers, Emit(s)
      PROVE  Coverage'
  <2>. DEFINE v == sync[s]
  <2>1. pc[s] = "emitting" /\ v \in Synchronization
        /\ Covers("emitting", v) /\ Window("emitting", v)
    BY <1>9, <1>a DEF Emit, Coverage
  <2>2. PICK p, w : /\ Go(s, p, w) /\ p \in {"persisting", "emitting"}
                    /\ w.listed = v.listed /\ w.through = v.through /\ w.cursor = v.cursor
    <3>. DEFINE done == [v EXCEPT !.number = 0, !.current = Absent, !.events = <<>>]
                more == [v EXCEPT !.events = Tail(@)]
    <3>1. /\ done.listed = v.listed /\ more.listed = v.listed
          /\ done.through = v.through /\ more.through = v.through
          /\ done.cursor = v.cursor /\ more.cursor = v.cursor
      BY <2>1 DEF Synchronization
    <3>2. Go(s, "persisting", done) \/ Go(s, "emitting", more)
      BY <1>9 DEF Emit
    <3>. HIDE DEF done, more
    <3>. QED BY <3>1, <3>2
  <2>3. Window(p, w)
    BY <2>1, <2>2 DEF Window
  <2>4. Covers(p, w)
    BY <1>b, <2>1, <2>2 DEF Covers
  <2>. QED BY <1>9, <2>2, <2>3, <2>4, GoCoverage DEF Emit, provider
<1>10. ASSUME NEW s \in Syncers, AdvanceCursor(s)
       PROVE  Coverage'
  <2>. DEFINE v == sync[s]
  <2>1. /\ pc[s] = "persisting" /\ v \in Synchronization /\ v.through \in Nat
        /\ \A i \in Items : v.listed[i] = Absent
        /\ Covers("persisting", v) /\ Window("persisting", v)
    BY <1>10, <1>a DEF AdvanceCursor, Advance, Persisted, Coverage, Synchronization
  <2>2. /\ cursor' = v.through /\ first' = IF cursor = NoCursor THEN v.through ELSE first
        /\ UNCHANGED <<clock, item, real, stored>> /\ Go(s, "idle", NoSync)
    BY <1>10 DEF AdvanceCursor, Advance, provider
  <2>3. \A t \in Syncers : pc'[t] = "idle" /\ sync'[t] = NoSync
    BY <2>2 DEF Go, OneSyncer, TypeOK, ControlOK
  <2>4. \A t \in Syncers : Window(pc[t], sync[t])' /\ Covers(pc[t], sync[t])'
    BY <2>2, <2>3 DEF Window, Covers, NoSync
  <2>5. \A i \in Items : Owed(v, i) => stored[i] = item[i]
    BY <2>1 DEF Covers, Owed
  <2>6. v.cursor = cursor /\ v.through <= clock
    BY <2>1 DEF Window
  <2>7. CursorCoversChanges'
    <3>. SUFFICES ASSUME NEW i \in Items, item[i] # Absent, InScope(i)', real[i] < v.through
                  PROVE  stored[i] = item[i]
      BY <2>2 DEF CursorCoversChanges, InScope
    <3>1. item[i].updated \in Nat /\ real[i] \in Nat
      BY EarlierFacts
    <3>2. CASE cursor = NoCursor
      <4>1. item[i].updated >= v.through - History
        BY <2>1, <2>2, <3>2 DEF InScope
      <4>. QED BY <2>5, <2>6, <3>2, <4>1 DEF Owed, UpdatedAfter, baseline
    <3>3. CASE cursor # NoCursor /\ real[i] < cursor
      <4>1. InScope(i)
        BY <2>2, <3>3 DEF InScope, Coverage
      <4>. QED BY <3>3, <4>1 DEF Coverage, CursorCoversChanges
    <3>4. CASE cursor # NoCursor /\ cursor <= real[i]
      <4>1. real[i] - Skew <= item[i].updated
        BY DEF Coverage
      <4>2. item[i].updated >= cursor - Overlap
        BY <3>1, <3>4, <4>1
      <4>. QED BY <2>5, <2>6, <3>4, <4>2 DEF Owed, UpdatedAfter, baseline
    <3>. QED BY <3>1, <3>2, <3>3, <3>4
  <2>. QED BY <2>1, <2>2, <2>4, <2>6, <2>7 DEF Coverage
<1>11. ASSUME NEW s \in Syncers, Crash(s)
       PROVE  Coverage'
  <2>1. NoSync.through = 0
    BY DEF NoSync
  <2>. QED BY <1>11, <2>1, GoCoverage DEF Crash, provider, Window, Covers
<1>. QED BY <1>1, <1>2, <1>3, <1>4, <1>5, <1>6, <1>7, <1>8, <1>9, <1>10, <1>11
         DEF Next, Step

-----------------------------------------------------------------------------
(* The theorems. *)

Invariant == TypeOK /\ Versions /\ News /\ Coverage

LEMMA InvariantHolds == OneSyncer /\ Spec => []Invariant
<1>1. Init => Invariant
  BY InitTypeOK, InitVersions, InitNews, InitCoverage DEF Invariant
<1>2. OneSyncer /\ Invariant /\ [Next]_vars => Invariant'
  BY StepTypeOK, StepVersions, StepNews, StepCoverage DEF Invariant
<1>3. OneSyncer => OneSyncer'
  BY DEF OneSyncer
<1>. QED BY <1>1, <1>2, <1>3, PTL DEF Spec

\* Whatever changed at the provider before the cursor is stored as it is, for any
\* page size, clock skew within the overlap, movement of pages while they are read
\* and synchronizations that die, as work-item-sync.service.ts advances the cursor.
THEOREM CursorCoversChangesHolds == OneSyncer /\ Spec => []CursorCoversChanges
<1>1. Invariant => CursorCoversChanges
  BY DEF Invariant, Coverage
<1>. QED BY <1>1, InvariantHolds, PTL

\* Subscribers know the state of every stored item, unless a synchronization died
\* between upserting it and emitting its lifecycle events.
THEOREM SubscribersAreCurrentHolds == OneSyncer /\ Spec => []SubscribersAreCurrent
<1>1. Invariant => SubscribersAreCurrent
  BY DEF Invariant, News
<1>. QED BY <1>1, InvariantHolds, PTL

\* No lifecycle event tells what subscribers know, however often synchronizations
\* are retried.
THEOREM NewsIsNewHolds == OneSyncer /\ Spec => NewsIsNew
<1>1. OneSyncer /\ Invariant /\ [Next]_vars =>
        [\A e \in announced' \ announced :
           e.item \in lost \/ told[e.item] # Meaning(e.type)]_vars
  BY StepNews DEF Invariant
<1>2. OneSyncer => OneSyncer'
  BY DEF OneSyncer
<1>. QED BY <1>1, <1>2, InvariantHolds, PTL DEF Spec, NewsIsNew
=============================================================================
