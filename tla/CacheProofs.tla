----------------------------- MODULE CacheProofs -----------------------------
(***************************************************************************)
(* Who waits in the cache and what it holds, for any keys, sizes, limits   *)
(* and users.                                                              *)
(***************************************************************************)
EXTENDS Cache, FiniteSetTheorems, WellFoundedInduction, TLAPS

(* An entry: its type, and that nobody waits for loaded data.              *)
Served(e) == e \in Info /\ (e.ready => Waiting(e) = {})

IInv ==
    /\ cached \in SUBSET Keys
    /\ info \in [Keys -> Info]
    /\ \A k \in Keys : Served(info[k])

(* No timer runs while data is loaded.                                     *)
Timed(e) == e.loading => ~e.timer_active

TInv == IInv /\ \A k \in Keys : Timed(info[k])

----------------------------------------------------------------------------
(* The methods of CacheInfo.                                               *)

LEMMA NoInfoServed == Served(NoInfo) /\ Timed(NoInfo) /\ ~NoInfo.ready
<1>1. NoInfo \in Info
  BY CacheAssumption DEF NoInfo, Info
<1> QED
  BY <1>1 DEF NoInfo, Served, Timed

LEMMA StopTimerServed ==
    ASSUME NEW e, Served(e)
    PROVE  Served(StopTimer(e)) /\ Timed(StopTimer(e)) /\ StopTimer(e).ready = e.ready
<1> DEFINE m == StopTimer(e)
<1>0. 0 \in 0..UINT_MAX
  BY CacheAssumption
<1>1. m \in Info
  BY <1>0 DEF Served, StopTimer, Info
<1>2. /\ m.ready = e.ready /\ m.callbacks = e.callbacks /\ ~m.timer_active
  BY DEF Served, StopTimer, Info
<1> QED
  BY <1>1, <1>2 DEF Served, Timed, Waiting

LEMMA SetTimoutServed ==
    ASSUME NEW e, Served(e), NEW time \in Lifetimes
    PROVE  Served(SetTimout(e, time)) /\ SetTimout(e, time).ready = e.ready
<1> DEFINE m == SetTimout(e, time)
<1>1. m \in Info
  BY CacheAssumption DEF Served, SetTimout, Info
<1>2. m.ready = e.ready /\ m.callbacks = e.callbacks
  BY DEF Served, SetTimout, Info
<1> QED
  BY <1>1, <1>2 DEF Served, Waiting

LEMMA SetLoadingServed ==
    ASSUME NEW e, Served(e)
    PROVE  Served(SetLoading(e)) /\ ~SetLoading(e).ready
BY DEF Served, SetLoading, Info

LEMMA SetLoadedServed ==
    ASSUME NEW e, e \in Info
    PROVE  Served(SetLoaded(e)) /\ SetLoaded(e).ready /\ ~SetLoaded(e).loading
<1> DEFINE m == SetLoaded(e)
<1>1. m \in Info
  BY DEF SetLoaded, Info
<1>2. m.ready /\ ~m.loading /\ m.callbacks = [cb \in Callbacks |-> "none"]
  BY DEF SetLoaded, Info
<1> QED
  BY <1>1, <1>2 DEF Served, Waiting

LEMMA CancelLoadingServed ==
    ASSUME NEW e, Served(e), NEW m \in CancelLoading(e)
    PROVE  Served(m) /\ ~m.ready /\ ~m.loading
<1> DEFINE n == [e EXCEPT !.loading = FALSE, !.ready = FALSE]
<1>1. n \in Info /\ ~n.ready /\ ~n.loading
  BY DEF Served, Info
<1>2. m = n \/ \E cb \in Waiting(e) : m = [n EXCEPT !.callbacks[cb] = "none"]
  BY DEF CancelLoading
<1> HIDE DEF n
<1>3. ASSUME NEW cb \in Waiting(e), m = [n EXCEPT !.callbacks[cb] = "none"]
      PROVE  m \in Info /\ ~m.ready /\ ~m.loading
  BY <1>1, <1>3 DEF Info, Waiting
<1> QED
  BY <1>1, <1>2, <1>3 DEF Served

LEMMA LoadedServed ==
    ASSUME NEW e, Served(e), NEW len \in Sizes, NEW life \in Lifetimes
    PROVE  LET m == Loaded(e, len, life) IN Served(m) /\ m.ready /\ ~m.loading
<1> DEFINE d == [e EXCEPT !.body = len]
           t == IF life > 0 THEN SetTimout(d, life) ELSE StopTimer(d)
<1>1. d \in Info /\ d.ready = e.ready /\ d.callbacks = e.callbacks
  BY CacheAssumption DEF Served, Info
<1>2. Served(d)
  BY <1>1 DEF Served, Waiting
<1>3. Loaded(e, len, life) = SetLoaded(t)
  BY DEF Loaded
<1> HIDE DEF d
<1>4. t \in Info
  BY <1>2, SetTimoutServed, StopTimerServed DEF Served
<1> HIDE DEF t
<1> QED
  BY <1>3, <1>4, SetLoadedServed

----------------------------------------------------------------------------
(* One entry at a time.                                                    *)

LEMMA ErasedServed ==
    ASSUME IInv, NEW V
    PROVE  /\ Erased(V) \in [Keys -> Info]
           /\ \A k \in Keys : Served(Erased(V)[k])
           /\ \A k \in Keys : Erased(V)[k] = NoInfo \/ Erased(V)[k] = info[k]
           /\ \A k \in Keys : k \in V => Erased(V)[k] = NoInfo
BY NoInfoServed DEF Erased, IInv, Served

(* Key k gets the entry m, the keys of V are erased.                       *)
LEMMA EntryServed ==
    ASSUME IInv, NEW f \in [Keys -> Info], \A j \in Keys : Served(f[j]),
           NEW k \in Keys, NEW m, Served(m), info' = [f EXCEPT ![k] = m],
           cached' \in SUBSET Keys
    PROVE  IInv' /\ info'[k] = m /\ \A j \in Keys \ {k} : info'[j] = f[j]
<1>1. \A j \in Keys : info'[j] = IF j = k THEN m ELSE f[j]
  OBVIOUS
<1>2. m \in Info
  BY DEF Served
<1> QED
  BY <1>1, <1>2 DEF IInv, Served, Waiting

LEMMA EraseServed ==
    ASSUME IInv, NEW V, Erase(V)
    PROVE  IInv' /\ info' = Erased(V)
BY ErasedServed DEF Erase, IInv, Served, Waiting

----------------------------------------------------------------------------
(* The actions.                                                            *)

(* The step is about key k; other entries are kept or erased.              *)
Keeps(k) ==
    \A j \in Keys \ {k} :
        \/ info'[j] = NoInfo
        \/ info'[j] = info[j] /\ (j \in cached' <=> j \in cached)

LEMMA LoadingKeeps ==
    ASSUME IInv, NEW k \in Keys, Loading(k)
    PROVE  IInv' /\ Keeps(k) /\ Timed(info'[k])
<1> DEFINE e == SetLoading(info[k])
           m == StopTimer(e)
<1>1. Served(e)
  BY SetLoadingServed DEF IInv
<1>2. info' = [info EXCEPT ![k] = m] /\ cached' = cached \cup {k}
  BY DEF Loading, StartLoading
<1> HIDE DEF e
<1>3. Served(m) /\ Timed(m)
  BY <1>1, StopTimerServed
<1> HIDE DEF m
<1>4. IInv' /\ info'[k] = m /\ \A j \in Keys \ {k} : info'[j] = info[j]
  <2>1. /\ info \in [Keys -> Info] /\ cached' \in SUBSET Keys
        /\ \A j \in Keys : Served(info[j])
    BY <1>2 DEF IInv
  <2> QED
    BY <1>2, <1>3, <2>1, EntryServed
<1> QED
  BY <1>2, <1>3, <1>4 DEF Keeps

LEMMA CancelKeeps ==
    ASSUME IInv, NEW k \in Keys, Cancel(k)
    PROVE  IInv' /\ Keeps(k) /\ (info'[k] = info[k] \/ ~info'[k].loading)
<1>1. cached' = cached /\ IInv
  BY DEF Cancel
<1>2. CASE UNCHANGED info
  BY <1>1, <1>2 DEF IInv, Served, Waiting, Keeps
<1>3. CASE \E e \in CancelLoading(info[k]) : info' = [info EXCEPT ![k] = e]
  <2>1. PICK m \in CancelLoading(info[k]) : info' = [info EXCEPT ![k] = m]
    BY <1>3
  <2>2. Served(m) /\ ~m.loading
    BY <2>1, CancelLoadingServed DEF IInv
  <2>3. /\ info \in [Keys -> Info] /\ cached' \in SUBSET Keys
        /\ \A j \in Keys : Served(info[j])
    BY <1>1 DEF IInv
  <2>4. IInv' /\ info'[k] = m /\ \A j \in Keys \ {k} : info'[j] = info[j]
    BY <2>1, <2>2, <2>3, EntryServed
  <2> QED
    BY <1>1, <2>2, <2>4 DEF Keeps
<1> QED
  BY <1>2, <1>3 DEF Cancel

LEMMA AddKeeps ==
    ASSUME IInv, NEW k \in Keys, Add(k)
    PROVE  IInv' /\ Keeps(k) /\ info'[k].ready /\ ~info'[k].loading
<1>0. PICK len \in Sizes, life \in Lifetimes : \E V \in Removed(len) :
         /\ cached' = (cached \ V) \cup {k}
         /\ info' = [Erased(V) EXCEPT ![k] = Loaded(@, len, life)]
  BY DEF Add
<1>1. PICK V \in Removed(len) :
         /\ cached' = (cached \ V) \cup {k}
         /\ info' = [Erased(V) EXCEPT ![k] = Loaded(@, len, life)]
  BY <1>0
<1> DEFINE f == Erased(V)
           m == Loaded(f[k], len, life)
<1>2. f \in [Keys -> Info] /\ \A j \in Keys : Served(f[j])
  BY ErasedServed
<1>3. \A j \in Keys : f[j] = NoInfo \/ (f[j] = info[j] /\ j \notin V)
  BY ErasedServed
<1>4. info' = [f EXCEPT ![k] = m] /\ cached' \in SUBSET Keys
  BY <1>1 DEF IInv
<1> HIDE DEF f
<1>5. Served(m) /\ m.ready /\ ~m.loading
  BY <1>2, LoadedServed
<1> HIDE DEF m
<1>6. IInv' /\ info'[k] = m /\ \A j \in Keys \ {k} : info'[j] = f[j]
  BY <1>2, <1>4, <1>5, EntryServed
<1> QED
  BY <1>1, <1>3, <1>5, <1>6 DEF Keeps

(* The other steps erase entries, list a function or let time pass.        *)
Thins ==
    \A k \in Keys :
        \/ info'[k] = NoInfo
        \/ /\ info'[k].loading = info[k].loading
           /\ info'[k].timer_active = info[k].timer_active

LEMMA EraseThins ==
    ASSUME IInv, NEW V, Erase(V)
    PROVE  IInv' /\ Thins
<1>1. IInv' /\ info' = Erased(V) /\ cached' = cached \ V
  BY EraseServed DEF Erase
<1> QED
  BY <1>1, ErasedServed DEF Thins

LEMMA GetNotifiedThins ==
    ASSUME IInv, NEW k \in Keys, NEW cb \in Callbacks, NEW arg \in Args,
           GetNotified(k, cb, arg)
    PROVE  IInv' /\ Thins
<1> DEFINE e == info[k]
           m == [e EXCEPT !.callbacks[cb] = arg]
<1>1. e \in Info /\ ~e.ready /\ cached' = cached /\ info' = [info EXCEPT ![k] = m]
  BY DEF IInv, GetNotified
<1> HIDE DEF e
<1>2. /\ m \in Info /\ m.ready = e.ready
      /\ m.loading = e.loading /\ m.timer_active = e.timer_active
  BY <1>1 DEF Info
<1> HIDE DEF m
<1>3. Served(m)
  BY <1>1, <1>2 DEF Served
<1>4. /\ info \in [Keys -> Info] /\ cached' \in SUBSET Keys
      /\ \A j \in Keys : Served(info[j])
  BY <1>1 DEF IInv
<1>5. IInv' /\ info'[k] = m /\ \A j \in Keys \ {k} : info'[j] = info[j]
  BY <1>1, <1>3, <1>4, EntryServed
<1> QED
  BY <1>1, <1>2, <1>5 DEF Thins, e

LEMMA TickThins ==
    ASSUME IInv, Tick
    PROVE  IInv' /\ Thins
<1>1. /\ cached' = cached
      /\ info' = [k \in Keys |-> [info[k] EXCEPT !.left = IF @ > 0 THEN @ - 1 ELSE 0]]
  BY DEF Tick
<1>2. ASSUME NEW k \in Keys
      PROVE  /\ info'[k] \in Info /\ Served(info'[k])
             /\ info'[k].loading = info[k].loading
             /\ info'[k].timer_active = info[k].timer_active
  <2> DEFINE e == info[k]
             n == IF e.left > 0 THEN e.left - 1 ELSE 0
             m == [e EXCEPT !.left = n]
  <2>1. e \in Info /\ Served(e)
    BY DEF IInv
  <2>2. info'[k] = m
    BY <1>1
  <2>3. n \in 0..UINT_MAX
    <3>1. e.left \in 0..UINT_MAX
      BY <2>1 DEF Info
    <3> QED
      BY <3>1, CacheAssumption
  <2> HIDE DEF e, n
  <2>4. /\ m \in Info /\ m.ready = e.ready /\ m.timer_active = e.timer_active
        /\ m.callbacks = e.callbacks /\ m.loading = e.loading
    BY <2>1, <2>3 DEF Info
  <2> HIDE DEF m
  <2>5. Served(m)
    BY <2>1, <2>4 DEF Served, Waiting
  <2> QED
    BY <2>2, <2>4, <2>5 DEF e
<1>3. info' \in [Keys -> Info]
  BY <1>1, <1>2
<1> QED
  BY <1>1, <1>2, <1>3 DEF IInv, Thins, Served, Waiting

LEMMA ClearThins ==
    ASSUME IInv, Clear
    PROVE  IInv' /\ Thins
BY NoInfoServed DEF Clear, Thins, IInv, Served, Waiting

(* What a step of the cache other than those about one key may be.         *)
LEMMA OtherThins ==
    ASSUME IInv, NEW k \in Keys,
           \/ AddForever(k) \/ Invalidate(k) \/ Expire(k) \/ Clear \/ Tick
           \/ \E cb \in Callbacks, arg \in Args : GetNotified(k, cb, arg)
    PROVE  IInv' /\ Thins
<1>1. CASE AddForever(k)
  BY <1>1, EraseThins DEF AddForever
<1>2. CASE Invalidate(k)
  BY <1>2, EraseThins DEF Invalidate
<1>3. CASE Expire(k)
  BY <1>3, EraseThins DEF Expire
<1>4. CASE Clear
  BY <1>4, ClearThins
<1>5. CASE Tick
  BY <1>5, TickThins
<1>6. CASE \E cb \in Callbacks, arg \in Args : GetNotified(k, cb, arg)
  BY <1>6, GetNotifiedThins
<1> QED
  BY <1>1, <1>2, <1>3, <1>4, <1>5, <1>6

(* Clear and Tick are about no key; with no keys there is nothing to show. *)
LEMMA StepKinds ==
    ASSUME IInv, [Next]_vars
    PROVE  \/ IInv' /\ Thins
           \/ \E k \in Keys : Loading(k) \/ Cancel(k) \/ Add(k)
<1>1. CASE UNCHANGED vars
  BY <1>1 DEF vars, IInv, Served, Waiting, Thins
<1>2. CASE Clear
  BY <1>2, ClearThins
<1>3. CASE Tick
  BY <1>3, TickThins
<1>4. CASE \E k \in Keys :
              \/ AddForever(k) \/ Invalidate(k) \/ Expire(k)
              \/ \E cb \in Callbacks, arg \in Args : GetNotified(k, cb, arg)
  BY <1>4, OtherThins
<1> QED
  BY <1>1, <1>2, <1>3, <1>4 DEF Next

LEMMA InitInv == Init => TInv
<1> SUFFICES ASSUME Init PROVE TInv
  OBVIOUS
<1>1. cached = {} /\ info = [k \in Keys |-> NoInfo]
  BY DEF Init
<1>2. info \in [Keys -> Info] /\ \A k \in Keys : info[k] = NoInfo
  BY <1>1, NoInfoServed DEF Served
<1> QED
  BY <1>1, <1>2, NoInfoServed DEF TInv, IInv

LEMMA NextInv == IInv /\ [Next]_vars => IInv'
<1> SUFFICES ASSUME IInv, [Next]_vars PROVE IInv'
  OBVIOUS
<1>1. ASSUME NEW k \in Keys, Loading(k) \/ Cancel(k) \/ Add(k)
      PROVE  IInv'
  BY <1>1, LoadingKeeps, CancelKeeps, AddKeeps
<1> QED
  BY <1>1, StepKinds

LEMMA NextTimed == TInv /\ [Next]_vars => TInv'
<1> SUFFICES ASSUME TInv, [Next]_vars PROVE TInv'
  OBVIOUS
<1>0. IInv
  BY DEF TInv
<1>1. ASSUME NEW k \in Keys, IInv', Keeps(k),
             Timed(info'[k]) \/ info'[k] = info[k]
      PROVE  TInv'
  BY <1>1, NoInfoServed DEF TInv, Keeps, Timed
<1>2. ASSUME NEW k \in Keys, Loading(k)
      PROVE  TInv'
  BY <1>0, <1>1, <1>2, LoadingKeeps
<1>3. ASSUME NEW k \in Keys, Cancel(k)
      PROVE  TInv'
  BY <1>0, <1>1, <1>3, CancelKeeps DEF Timed
<1>4. ASSUME NEW k \in Keys, Add(k)
      PROVE  TInv'
  BY <1>0, <1>1, <1>4, AddKeeps DEF Timed
<1>5. CASE IInv' /\ Thins
  BY <1>5, NoInfoServed DEF TInv, Thins, Timed
<1> QED
  BY <1>0, <1>2, <1>3, <1>4, <1>5, StepKinds

(* Whoever asks for loaded data is told at once, and loading tells all.    *)
THEOREM LoadedTellsAll == Spec => []NobodyWaitsForLoaded
<1>1. Init => IInv
  BY InitInv DEF TInv
<1>2. IInv => NobodyWaitsForLoaded
  BY DEF IInv, NobodyWaitsForLoaded, Served
<1> QED
  BY <1>1, <1>2, NextInv, PTL DEF Spec

(* The timer of old data never takes an entry that is being loaded again,  *)
(* with those who wait for it: for every user, who may also load a loaded  *)
(* key, cancel, clear and invalidate as he likes.                          *)
THEOREM LoadingHasNoTimer == Spec => []LoadingUntimed
<1>1. TInv => LoadingUntimed
  BY DEF TInv, LoadingUntimed, IsLoading, Timed
<1> QED
  BY <1>1, InitInv, NextTimed, PTL DEF Spec

----------------------------------------------------------------------------
(***************************************************************************)
(* Sums.  MapThenSumSet is a recursive function on the subsets, a CHOOSE   *)
(* for the provers; what it yields is shown by induction over the subsets, *)
(* which strict inclusion orders well.                                     *)
(***************************************************************************)
Body(f, S) == MapThenSumSet(LAMBDA k : f[k].body, S)

Elem(s) == CHOOSE x \in s : TRUE

Counts(i, f, S) ==
    i = [s \in SUBSET S |-> IF s = {} THEN 0 ELSE f[Elem(s)].body + i[s \ {Elem(s)}]]

LEMMA BodyIs == \A f, S : Body(f, S) = (CHOOSE i : Counts(i, f, S))[S]
  BY DEF Body, MapThenSumSet, MapThenFoldSet, Counts, Elem

LEMMA ElemIn == \A s : s # {} => Elem(s) \in s
  BY DEF Elem

(* Some of the sets of a family of subsets of a finite set has none of     *)
(* them below it.                                                          *)
LEMMA Minimal ==
    ASSUME NEW S, IsFiniteSet(S), NEW D, D \subseteq SUBSET S, D # {}
    PROVE  \E x \in D : \A y \in D : y \subseteq x => y = x
<1>1. IsWellFoundedOn(StrictSubsetOrdering(S), SUBSET S)
  BY FS_StrictSubsetOrderingWellFounded, FS_FiniteSubsetsOfFinite
<1>2. PICK x \in D : \A y \in D : ~(<<y, x>> \in StrictSubsetOrdering(S))
  BY <1>1, WFMin
<1> QED BY <1>2 DEF StrictSubsetOrdering

(* Induction over the subsets of a finite set, with a set for the predicate. *)
LEMMA SubsetInduction ==
    ASSUME NEW S, IsFiniteSet(S), NEW G,
           \A T \in SUBSET S : (\A U \in SUBSET T : U # T => U \in G) => T \in G
    PROVE  \A T \in SUBSET S : T \in G
<1> DEFINE D == {T \in SUBSET S : T \notin G}
<1> SUFFICES ASSUME D # {} PROVE FALSE
  OBVIOUS
<1>0. D \subseteq SUBSET S
  OBVIOUS
<1>1. \A T : T \in D <=> T \in SUBSET S /\ T \notin G
  OBVIOUS
<1> HIDE DEF D
<1>2. PICK x \in D : \A y \in D : y \subseteq x => y = x
  BY <1>0, Minimal
<1>3. ASSUME NEW U \in SUBSET x, U # x PROVE U \in G
  <2>1. U \subseteq x /\ x \subseteq S
    BY <1>1, <1>3
  <2>2. U \notin D
    BY <1>2, <1>3, <2>1
  <2> QED BY <1>1, <2>1, <2>2
<1>4. x \in SUBSET S /\ x \notin G
  BY <1>1
<1> QED BY <1>3, <1>4

LEMMA CountsAt ==
    ASSUME NEW f, NEW S, NEW i, Counts(i, f, S), NEW s, s \subseteq S, s # {}
    PROVE  i[s] = f[Elem(s)].body + i[s \ {Elem(s)}]
BY DEF Counts

LEMMA CountsEmpty ==
    ASSUME NEW f, NEW S, NEW i, Counts(i, f, S)
    PROVE  i[{}] = 0
BY DEF Counts

LEMMA CountsAgree ==
    ASSUME NEW f, NEW S, IsFiniteSet(S), NEW T, T \subseteq S,
           NEW i, Counts(i, f, S), NEW j, Counts(j, f, T)
    PROVE  i[T] = j[T]
<1> DEFINE G == {s \in SUBSET T : i[s] = j[s]}
<1>1. ASSUME NEW s \in SUBSET T, \A U \in SUBSET s : U # s => U \in G
      PROVE  s \in G
  <2>0. s \subseteq S /\ s \subseteq T
    OBVIOUS
  <2> HIDE DEF G
  <2>1. CASE s = {}
    <3>1. i[s] = 0
      BY <2>1, CountsEmpty
    <3>2. j[s] = 0
      BY <2>1, CountsEmpty
    <3> QED BY <2>0, <3>1, <3>2 DEF G
  <2>2. CASE s # {}
    <3>1. s \ {Elem(s)} \in SUBSET s /\ s \ {Elem(s)} # s
      BY <2>2, ElemIn
    <3>2. i[s \ {Elem(s)}] = j[s \ {Elem(s)}]
      BY <1>1, <3>1 DEF G
    <3>3. i[s] = f[Elem(s)].body + i[s \ {Elem(s)}]
      BY <2>0, <2>2, CountsAt
    <3>4. j[s] = f[Elem(s)].body + j[s \ {Elem(s)}]
      BY <2>0, <2>2, CountsAt
    <3> QED BY <2>0, <3>2, <3>3, <3>4 DEF G
  <2> QED BY <2>1, <2>2
<1>2. IsFiniteSet(T)
  BY FS_Subset
<1> HIDE DEF G
<1>3. \A s \in SUBSET T : s \in G
  BY <1>1, <1>2, SubsetInduction
<1> QED BY <1>3 DEF G

LEMMA CountsExist ==
    ASSUME NEW f, NEW S, IsFiniteSet(S)
    PROVE  \E i : Counts(i, f, S)
<1> DEFINE G == {T \in SUBSET S : \E i : Counts(i, f, T)}
<1>1. ASSUME NEW T \in SUBSET S, \A U \in SUBSET T : U # T => U \in G
      PROVE  T \in G
  <2> DEFINE F(u) == CHOOSE i : Counts(i, f, u)
             h == [s \in SUBSET T |->
                     IF s = {} THEN 0
                     ELSE f[Elem(s)].body + F(s \ {Elem(s)})[s \ {Elem(s)}]]
  <2>1. ASSUME NEW u \in SUBSET T, u # T PROVE Counts(F(u), f, u)
    <3>1. \E i : Counts(i, f, u)
      BY <1>1, <2>1
    <3> QED BY <3>1
  <2> HIDE DEF F
  <2>2. ASSUME NEW u \in SUBSET T, u # T PROVE h[u] = F(u)[u]
    <3> DEFINE v == u \ {Elem(u)}
    <3>1. Counts(F(u), f, u)
      BY <2>1, <2>2
    <3>2. CASE u = {}
      <4>1. F(u)[u] = 0
        BY <3>1, <3>2, CountsEmpty
      <4>2. h[u] = 0
        BY <3>2
      <4> QED BY <4>1, <4>2
    <3>3. CASE u # {}
      <4>1. v \in SUBSET T /\ v # T /\ v \subseteq u
        BY <3>3, ElemIn
      <4>2. IsFiniteSet(u)
        BY FS_Subset
      <4>3. Counts(F(v), f, v)
        BY <2>1, <4>1
      <4>4. F(u)[v] = F(v)[v]
        BY <3>1, <4>1, <4>2, <4>3, CountsAgree
      <4>5. F(u)[u] = f[Elem(u)].body + F(u)[v]
        BY <3>1, <3>3, CountsAt
      <4>6. h[u] = f[Elem(u)].body + F(v)[v]
        BY <3>3
      <4> QED BY <4>4, <4>5, <4>6
    <3> QED BY <3>2, <3>3
  <2>3. ASSUME NEW s \in SUBSET T, s # {}
        PROVE  h[s] = f[Elem(s)].body + h[s \ {Elem(s)}]
    <3>1. s \ {Elem(s)} \in SUBSET T /\ s \ {Elem(s)} # T
      BY <2>3, ElemIn
    <3>2. h[s \ {Elem(s)}] = F(s \ {Elem(s)})[s \ {Elem(s)}]
      BY <2>2, <3>1
    <3> QED BY <2>3, <3>2
  <2>4. h = [s \in SUBSET T |-> h[s]] /\ h[{}] = 0
    OBVIOUS
  <2> HIDE DEF h
  <2>5. h = [s \in SUBSET T |-> IF s = {} THEN 0
                                ELSE f[Elem(s)].body + h[s \ {Elem(s)}]]
    BY <2>3, <2>4
  <2>6. Counts(h, f, T)
    BY <2>5 DEF Counts
  <2> QED BY <2>6
<1> HIDE DEF G
<1>2. S \in G
  BY <1>1, SubsetInduction
<1> QED BY <1>2 DEF G

LEMMA BodyEmpty == \A f : Body(f, {}) = 0
<1> SUFFICES ASSUME NEW f PROVE Body(f, {}) = 0
  OBVIOUS
<1>1. PICK i : Counts(i, f, {})
  BY CountsExist, FS_EmptySet
<1>2. Counts(CHOOSE j : Counts(j, f, {}), f, {})
  BY <1>1
<1> QED BY <1>2, BodyIs, CountsEmpty

LEMMA BodyStep ==
    ASSUME NEW f, NEW S, IsFiniteSet(S), S # {}
    PROVE  Body(f, S) = f[Elem(S)].body + Body(f, S \ {Elem(S)})
<1> DEFINE T == S \ {Elem(S)}
           c(u) == CHOOSE i : Counts(i, f, u)
<1>1. IsFiniteSet(T) /\ T \subseteq S
  BY FS_Subset
<1>2. Body(f, S) = c(S)[S] /\ Body(f, T) = c(T)[T]
  BY BodyIs
<1>3. Counts(c(S), f, S)
  <2>1. \E i : Counts(i, f, S)
    BY CountsExist
  <2> QED BY <2>1
<1>4. Counts(c(T), f, T)
  <2>1. \E i : Counts(i, f, T)
    BY <1>1, CountsExist
  <2> QED BY <2>1
<1> HIDE DEF c
<1>5. c(S)[S] = f[Elem(S)].body + c(S)[S \ {Elem(S)}]
  BY <1>3, CountsAt
<1> HIDE DEF T
<1>6. c(S)[T] = c(T)[T]
  BY <1>1, <1>3, <1>4, CountsAgree
<1> QED BY <1>2, <1>5, <1>6 DEF T

LEMMA BodyNat ==
    ASSUME NEW f, NEW S, IsFiniteSet(S), \A k \in S : f[k].body \in Nat
    PROVE  Body(f, S) \in Nat
<1> DEFINE G == {T \in SUBSET S : Body(f, T) \in Nat}
<1>0. \A T : T \in G <=> T \in SUBSET S /\ Body(f, T) \in Nat
  OBVIOUS
<1> HIDE DEF G
<1>1. ASSUME NEW T \in SUBSET S, \A U \in SUBSET T : U # T => U \in G
      PROVE  T \in G
  <2>1. CASE T = {}
    BY <1>0, <2>1, BodyEmpty
  <2>2. CASE T # {}
    <3>1. Elem(T) \in T /\ IsFiniteSet(T)
      BY <2>2, ElemIn, FS_Subset
    <3>2. T \ {Elem(T)} \in SUBSET T /\ T \ {Elem(T)} # T
      BY <3>1
    <3>3. Body(f, T \ {Elem(T)}) \in Nat
      BY <1>0, <1>1, <3>2
    <3>4. f[Elem(T)].body \in Nat
      BY <3>1
    <3>5. Body(f, T) = f[Elem(T)].body + Body(f, T \ {Elem(T)})
      BY <2>2, <3>1, BodyStep
    <3> QED BY <1>0, <3>3, <3>4, <3>5
  <2> QED BY <2>1, <2>2
<1>2. S \in G
  BY <1>1, SubsetInduction
<1> QED BY <1>0, <1>2

(* Which element is taken first makes no difference.                       *)
LEMMA BodyRemove ==
    ASSUME NEW f, NEW S, IsFiniteSet(S), \A k \in S : f[k].body \in Nat, NEW y \in S
    PROVE  Body(f, S) = f[y].body + Body(f, S \ {y})
<1> DEFINE P(T) == \A x \in T : Body(f, T) = f[x].body + Body(f, T \ {x})
           G == {T \in SUBSET S : P(T)}
<1>0. \A T : T \in G <=> T \in SUBSET S /\ P(T)
  OBVIOUS
<1> HIDE DEF G
<1>1. ASSUME NEW T \in SUBSET S, \A U \in SUBSET T : U # T => U \in G, NEW x \in T
      PROVE  Body(f, T) = f[x].body + Body(f, T \ {x})
  <2> DEFINE e == Elem(T)
  <2>1. e \in T /\ IsFiniteSet(T)
    BY ElemIn, FS_Subset
  <2>2. Body(f, T) = f[e].body + Body(f, T \ {e})
    BY BodyStep, <2>1
  <2> HIDE DEF e
  <2>3. CASE x = e
    BY <2>2, <2>3
  <2>4. CASE x # e
    <3> DEFINE U == T \ {e}
               V == T \ {x}
               W == U \ {x}
    <3>1. /\ U \in SUBSET T /\ U # T /\ x \in U
          /\ V \in SUBSET T /\ V # T /\ e \in V
          /\ W = V \ {e} /\ W \subseteq S
      BY <2>1, <2>4
    <3>2. IsFiniteSet(W)
      BY <3>1, FS_Subset
    <3>3. Body(f, W) \in Nat
      BY <3>1, <3>2, BodyNat
    <3>4. U \in G /\ V \in G
      BY <1>1, <3>1
    <3>5. Body(f, U) = f[x].body + Body(f, W)
      BY <1>0, <3>1, <3>4
    <3>6. Body(f, V) = f[e].body + Body(f, W)
      BY <1>0, <3>1, <3>4
    <3>7. f[x].body \in Nat /\ f[e].body \in Nat
      BY <1>1, <2>1
    <3> HIDE DEF U, V, W
    <3>8. Body(f, T) = f[e].body + Body(f, U)
      BY <2>2 DEF U
    <3>9. Body(f, T) = f[x].body + Body(f, V)
      BY <3>3, <3>5, <3>6, <3>7, <3>8
    <3> QED BY <3>9 DEF V
  <2> QED BY <2>3, <2>4
<1>2. \A T \in SUBSET S : (\A U \in SUBSET T : U # T => U \in G) => T \in G
  BY <1>0, <1>1
<1>3. S \in G
  BY <1>2, SubsetInduction
<1> QED BY <1>0, <1>3

(* The sum depends on the bodies of the keys in the set only.              *)
LEMMA BodySame ==
    ASSUME NEW f, NEW g, NEW S, IsFiniteSet(S), \A k \in S : f[k].body = g[k].body
    PROVE  Body(f, S) = Body(g, S)
<1> DEFINE G == {T \in SUBSET S : Body(f, T) = Body(g, T)}
<1>0. \A T : T \in G <=> T \in SUBSET S /\ Body(f, T) = Body(g, T)
  OBVIOUS
<1> HIDE DEF G
<1>1. ASSUME NEW T \in SUBSET S, \A U \in SUBSET T : U # T => U \in G
      PROVE  T \in G
  <2>1. CASE T = {}
    BY <1>0, <2>1, BodyEmpty
  <2>2. CASE T # {}
    <3>1. Elem(T) \in T /\ IsFiniteSet(T)
      BY <2>2, ElemIn, FS_Subset
    <3>2. T \ {Elem(T)} \in SUBSET T /\ T \ {Elem(T)} # T
      BY <3>1
    <3>3. Body(f, T \ {Elem(T)}) = Body(g, T \ {Elem(T)})
      BY <1>0, <1>1, <3>2
    <3>4. f[Elem(T)].body = g[Elem(T)].body
      BY <3>1
    <3>5. Body(f, T) = f[Elem(T)].body + Body(f, T \ {Elem(T)})
      BY <2>2, <3>1, BodyStep
    <3>6. Body(g, T) = g[Elem(T)].body + Body(g, T \ {Elem(T)})
      BY <2>2, <3>1, BodyStep
    <3> QED BY <1>0, <3>3, <3>4, <3>5, <3>6
  <2> QED BY <2>1, <2>2
<1>2. S \in G
  BY <1>1, SubsetInduction
<1> QED BY <1>0, <1>2

LEMMA BodySplit ==
    ASSUME NEW f, NEW S, IsFiniteSet(S), \A k \in S : f[k].body \in Nat, NEW V \in SUBSET S
    PROVE  Body(f, S) = Body(f, V) + Body(f, S \ V)
<1> DEFINE G == {T \in SUBSET S : Body(f, S) = Body(f, T) + Body(f, S \ T)}
<1>0. \A T : T \in G <=> T \in SUBSET S /\ Body(f, S) = Body(f, T) + Body(f, S \ T)
  OBVIOUS
<1> HIDE DEF G
<1>1. ASSUME NEW T \in SUBSET S, \A U \in SUBSET T : U # T => U \in G
      PROVE  T \in G
  <2>1. CASE T = {}
    <3>1. Body(f, T) = 0
      BY <2>1, BodyEmpty
    <3>2. S \ T = S /\ Body(f, S) \in Nat
      BY <2>1, BodyNat
    <3> QED BY <1>0, <3>1, <3>2
  <2>2. CASE T # {}
    <3> DEFINE e == Elem(T)
               U == T \ {e}
               R == S \ U
    <3>1. e \in T /\ IsFiniteSet(T) /\ e \in S
      BY <2>2, ElemIn, FS_Subset
    <3>2. U \in SUBSET T /\ U # T /\ R \ {e} = S \ T /\ e \in R /\ R \subseteq S
      BY <3>1
    <3>3. IsFiniteSet(R) /\ IsFiniteSet(S \ T) /\ IsFiniteSet(U)
      BY <3>2, FS_Subset
    <3>4. Body(f, T) = f[e].body + Body(f, U)
      BY <2>2, <3>1, BodyStep
    <3> HIDE DEF e, U, R
    <3>5. Body(f, S) = Body(f, U) + Body(f, R)
      BY <1>0, <1>1, <3>2 DEF R
    <3>6. Body(f, R) = f[e].body + Body(f, S \ T)
      BY <3>2, <3>3, BodyRemove
    <3>7. f[e].body \in Nat
      BY <3>1
    <3>8. Body(f, U) \in Nat
      BY <3>2, <3>3, BodyNat
    <3>9. Body(f, S \ T) \in Nat
      BY <3>3, BodyNat
    <3>10. Body(f, S) = Body(f, T) + Body(f, S \ T)
      BY <3>4, <3>5, <3>6, <3>7, <3>8, <3>9
    <3> QED BY <1>0, <3>10
  <2> QED BY <2>1, <2>2
<1>2. V \in G
  BY <1>1, SubsetInduction
<1> QED BY <1>0, <1>2

----------------------------------------------------------------------------
(* Remainders.                                                             *)

LEMMA TimesGrows ==
    ASSUME NEW m \in Nat, m > 0, NEW d \in Int, NEW e \in Int, d < e
    PROVE  m * d + m <= m * e
<1> DEFINE c == e - d - 1
<1>1. c \in Int /\ c >= 0 /\ e = d + 1 + c
  OBVIOUS
<1> HIDE DEF c
<1>2. m * c >= 0 /\ m * c \in Int
  BY <1>1
<1>3. m * e = m * d + m + m * c
  BY <1>1
<1>4. m * d \in Int
  OBVIOUS
<1> QED BY <1>2, <1>3, <1>4
LEMMA ModIs ==
    ASSUME NEW m \in Nat, m > 0, NEW q \in Int, NEW r \in 0..(m-1), NEW a \in Int, a = m * q + r
    PROVE  a % m = r
<1> DEFINE p == a \div m
           s == a % m
<1>1. a = m * p + s /\ p \in Int /\ s \in 0..(m-1)
  OBVIOUS
<1> HIDE DEF p, s
<1>2. m * p \in Int /\ m * q \in Int
  BY <1>1
<1>3. ~(p < q)
  <2> SUFFICES ASSUME p < q PROVE FALSE
    OBVIOUS
  <2>1. m * p + m <= m * q
    BY <1>1, TimesGrows
  <2> QED BY <1>1, <1>2, <2>1
<1>4. ~(q < p)
  <2> SUFFICES ASSUME q < p PROVE FALSE
    OBVIOUS
  <2>1. m * q + m <= m * p
    BY <1>1, TimesGrows
  <2> QED BY <1>1, <1>2, <2>1
<1>5. p = q
  BY <1>1, <1>3, <1>4
<1>6. s = r
  BY <1>1, <1>2, <1>5
<1> QED BY <1>6 DEF s
LEMMA ModShift ==
    ASSUME NEW a \in Int, NEW b \in Int, NEW m \in Nat, m > 0
    PROVE  ((a % m) + b) % m = (a + b) % m
<1> DEFINE q == a \div m
           s == a % m
           t == (s + b) \div m
           r == (s + b) % m
<1>1. a = m * q + s /\ q \in Int /\ s \in 0..(m-1)
  OBVIOUS
<1> HIDE DEF q, s
<1>2. s + b = m * t + r /\ t \in Int /\ r \in 0..(m-1)
  BY <1>1
<1> HIDE DEF t, r
<1>3. m * (q + t) = m * q + m * t
  BY <1>1, <1>2
<1>4. m * q \in Int /\ m * t \in Int /\ m * (q + t) \in Int
  BY <1>1, <1>2
<1>5. a + b = m * (q + t) + r
  BY <1>1, <1>2, <1>3, <1>4
<1>6. (a + b) % m = r
  <2> DEFINE c == a + b
             d == q + t
  <2>1. c \in Int /\ d \in Int /\ c = m * d + r
    BY <1>1, <1>2, <1>5
  <2> HIDE DEF c, d
  <2>2. c % m = r
    BY <1>2, <2>1, ModIs
  <2> QED BY <2>2 DEF c
<1> QED BY <1>6 DEF r, s

----------------------------------------------------------------------------
(***************************************************************************)
(* What the cache holds.                                                   *)
(***************************************************************************)
Held ==
    /\ IInv
    /\ IsFiniteSet(cached)
    /\ size \in 0..UINT_MAX
    /\ jobs \in [Keys -> Nat]
    /\ hung \in BOOLEAN
    /\ \A k \in Keys \ cached : info[k] = NoInfo

LoadedKeys == {k \in Keys : IsLoaded(k)}

LEMMA StoredIs == Stored = Body(info, cached) /\ Stored' = Body(info', cached')
<1>1. Stored = Body(info, cached)
  BY DEF Stored, Body, MapThenSumSet, MapThenFoldSet
<1>2. Stored' = Body(info', cached')
  BY DEF Stored, Body, MapThenSumSet, MapThenFoldSet
<1> QED BY <1>1, <1>2

LEMMA LoadedBytesIs == LoadedBytes = Body(info, LoadedKeys)
BY DEF LoadedBytes, LoadedKeys, Body, MapThenSumSet, MapThenFoldSet

ReadyIn(V) == {k \in V : info[k].ready}

LEMMA FreedIs == \A V : Freed(V) = Body(info, ReadyIn(V))
BY DEF Freed, ReadyIn, Body, MapThenSumSet, MapThenFoldSet

LEMMA BodyType == IInv => \A k \in Keys : info[k].body \in Nat /\ info[k].ready \in BOOLEAN
BY DEF IInv, Info

LEMMA BytesNat ==
    ASSUME IInv, NEW S \in SUBSET Keys, IsFiniteSet(S)
    PROVE  Body(info, S) \in Nat
<1>1. \A k \in S : info[k].body \in Nat
  BY BodyType
<1> QED BY <1>1, BodyNat

LEMMA UnsignedIs ==
    /\ \A n \in Int : Unsigned(n) \in 0..UINT_MAX
    /\ \A n \in 0..UINT_MAX : Unsigned(n) = n
BY CacheAssumption DEF Unsigned

(* Keys leave the sum with what they hold, and free no more than that.     *)
LEMMA FreedBytes ==
    ASSUME IInv, NEW S \in SUBSET Keys, IsFiniteSet(S), NEW V \in SUBSET S
    PROVE  /\ Freed(V) \in Nat
           /\ Body(info, S \ V) \in Nat
           /\ Body(info, S \ V) + Freed(V) <= Body(info, S)
<1> DEFINE R == ReadyIn(V)
<1>1. /\ R \in SUBSET V /\ V \in SUBSET Keys /\ S \ V \in SUBSET Keys
      /\ R \in SUBSET Keys /\ V \ R \in SUBSET Keys
  BY DEF ReadyIn
<1>2. IsFiniteSet(V) /\ IsFiniteSet(S \ V)
  BY FS_Subset
<1>3. IsFiniteSet(R) /\ IsFiniteSet(V \ R)
  BY <1>1, <1>2, FS_Subset
<1>4. Freed(V) = Body(info, R)
  BY FreedIs
<1> HIDE DEF R
<1>5. \A k \in S : info[k].body \in Nat
  BY BodyType
<1>6. \A k \in V : info[k].body \in Nat
  BY <1>5
<1>7. Body(info, S) = Body(info, V) + Body(info, S \ V)
  BY <1>5, BodySplit
<1>8. Body(info, V) = Body(info, R) + Body(info, V \ R)
  BY <1>1, <1>2, <1>6, BodySplit
<1>9. Body(info, R) \in Nat
  BY <1>1, <1>3, BytesNat
<1>10. Body(info, V \ R) \in Nat
  BY <1>1, <1>3, BytesNat
<1>11. Body(info, S \ V) \in Nat
  BY <1>1, <1>2, BytesNat
<1> QED BY <1>4, <1>7, <1>8, <1>9, <1>10, <1>11

----------------------------------------------------------------------------
(* What the steps do to the bodies.                                        *)

LEMMA LoadingBody ==
    ASSUME NEW e \in Info
    PROVE  StartLoading(e).body = e.body /\ ~StartLoading(e).ready
BY DEF StartLoading, StopTimer, SetLoading, Info

LEMMA CancelBody ==
    ASSUME NEW e \in Info, NEW m \in CancelLoading(e)
    PROVE  m.body = e.body
<1> DEFINE n == [e EXCEPT !.loading = FALSE, !.ready = FALSE]
<1>1. n \in Info /\ n.body = e.body
  BY DEF Info
<1>2. m = n \/ \E cb \in Waiting(e) : m = [n EXCEPT !.callbacks[cb] = "none"]
  BY DEF CancelLoading
<1> HIDE DEF n
<1>3. ASSUME NEW cb \in Waiting(e), m = [n EXCEPT !.callbacks[cb] = "none"]
      PROVE  m.body = n.body
  BY <1>1, <1>3 DEF Info
<1> QED BY <1>1, <1>2, <1>3

LEMMA LoadedBody ==
    ASSUME NEW e \in Info, NEW len \in Sizes, NEW life \in Lifetimes
    PROVE  Loaded(e, len, life).body = len
<1> DEFINE d == [e EXCEPT !.body = len]
           t == IF life > 0 THEN SetTimout(d, life) ELSE StopTimer(d)
<1>1. d \in Info /\ d.body = len
  BY CacheAssumption DEF Info
<1>2. Loaded(e, len, life) = SetLoaded(t)
  BY DEF Loaded
<1> HIDE DEF d
<1>3. t.body = len
  BY <1>1 DEF SetTimout, StopTimer, Info
<1>4. t \in Info
  <2>1. 0 \in 0..UINT_MAX /\ life \in 0..UINT_MAX
    BY CacheAssumption
  <2> QED BY <1>1, <2>1 DEF SetTimout, StopTimer, Info
<1> HIDE DEF t
<1> QED BY <1>2, <1>3, <1>4 DEF SetLoaded, Info

(* All entries keep their bodies.                                          *)
KeepsBodies == \A j \in Keys : info'[j].body = info[j].body
KeepsReady == \A j \in Keys : info'[j].ready = info[j].ready

LEMMA LoadingHolds ==
    ASSUME IInv, NEW k \in Keys, Loading(k)
    PROVE  /\ cached' = cached \cup {k} /\ size' = size /\ KeepsBodies
           /\ ~info'[k].ready /\ ~IsLoading(k) /\ MayLoad(k)
           /\ \A j \in Keys \ {k} : info'[j] = info[j]
<1>1. /\ info' = [info EXCEPT ![k] = StartLoading(info[k])]
      /\ cached' = cached \cup {k} /\ size' = size /\ ~IsLoading(k) /\ MayLoad(k)
  BY DEF Loading
<1>2. info \in [Keys -> Info] /\ info[k] \in Info
  BY DEF IInv
<1>3. /\ info'[k] = StartLoading(info[k])
      /\ \A j \in Keys \ {k} : info'[j] = info[j]
  BY <1>1, <1>2
<1> QED BY <1>1, <1>2, <1>3, LoadingBody DEF KeepsBodies

LEMMA CancelHolds ==
    ASSUME IInv, NEW k \in Keys, Cancel(k)
    PROVE  /\ cached' = cached /\ size' = size /\ KeepsBodies /\ MayLoad(k)
           /\ info'[k].ready => info'[k] = info[k]
           /\ \A j \in Keys \ {k} : info'[j] = info[j]
<1>1. /\ cached' = cached /\ size' = size /\ MayLoad(k)
      /\ UNCHANGED info \/ \E e \in CancelLoading(info[k]) : info' = [info EXCEPT ![k] = e]
  BY DEF Cancel
<1>2. CASE UNCHANGED info
  BY <1>1, <1>2 DEF KeepsBodies
<1>3. CASE \E e \in CancelLoading(info[k]) : info' = [info EXCEPT ![k] = e]
  <2>1. PICK m \in CancelLoading(info[k]) : info' = [info EXCEPT ![k] = m]
    BY <1>3
  <2>2. info \in [Keys -> Info] /\ info[k] \in Info /\ Served(info[k])
    BY DEF IInv
  <2>3. info'[k] = m /\ \A j \in Keys \ {k} : info'[j] = info[j]
    BY <2>1, <2>2
  <2>4. m.body = info[k].body
    BY <2>2, CancelBody
  <2>5. ~m.ready
    BY <2>2, CancelLoadingServed
  <2> QED BY <1>1, <2>3, <2>4, <2>5 DEF KeepsBodies
<1> QED BY <1>1, <1>2, <1>3

LEMMA GetNotifiedHolds ==
    ASSUME IInv, NEW k \in Keys, NEW cb \in Callbacks, NEW arg \in Args,
           GetNotified(k, cb, arg)
    PROVE  cached' = cached /\ size' = size /\ KeepsBodies /\ KeepsReady
<1> DEFINE m == [info[k] EXCEPT !.callbacks[cb] = arg]
<1>1. /\ info \in [Keys -> Info] /\ info[k] \in Info
      /\ cached' = cached /\ size' = size /\ info' = [info EXCEPT ![k] = m]
  BY DEF IInv, GetNotified
<1>2. m.body = info[k].body /\ m.ready = info[k].ready
  BY <1>1 DEF Info
<1> HIDE DEF m
<1>3. info'[k] = m /\ \A j \in Keys \ {k} : info'[j] = info[j]
  BY <1>1
<1> QED BY <1>1, <1>2, <1>3 DEF KeepsBodies, KeepsReady

LEMMA TickHolds ==
    ASSUME IInv, Tick
    PROVE  cached' = cached /\ size' = size /\ KeepsBodies /\ KeepsReady
<1>1. /\ cached' = cached /\ size' = size
      /\ info' = [k \in Keys |-> [info[k] EXCEPT !.left = IF @ > 0 THEN @ - 1 ELSE 0]]
  BY DEF Tick
<1>2. ASSUME NEW k \in Keys PROVE info'[k].body = info[k].body /\ info'[k].ready = info[k].ready
  <2> DEFINE e == info[k]
             n == IF e.left > 0 THEN e.left - 1 ELSE 0
             m == [e EXCEPT !.left = n]
  <2>1. e \in Info /\ info'[k] = m
    BY <1>1 DEF IInv
  <2> HIDE DEF e, n
  <2>2. m.body = e.body /\ m.ready = e.ready
    BY <2>1 DEF Info
  <2> QED BY <2>1, <2>2 DEF e
<1> QED BY <1>1, <1>2 DEF KeepsBodies, KeepsReady

(* What Add does, with the set of keys it removes.                         *)
Adds(k, len, V) ==
    /\ cached' = (cached \ V) \cup {k}
    /\ size' = Unsigned(size - Freed(V) + len)
    /\ info'[k].body = len /\ info'[k].ready
    /\ \A j \in Keys \ {k} : info'[j] = IF j \in V THEN NoInfo ELSE info[j]

LEMMA AddHolds ==
    ASSUME IInv, NEW k \in Keys, Add(k)
    PROVE  /\ MayLoad(k)
           /\ \E len \in Sizes : \E V \in Removed(len) : Adds(k, len, V)
<1>1. PICK len \in Sizes, life \in Lifetimes : \E V \in Removed(len) :
         /\ cached' = (cached \ V) \cup {k}
         /\ info' = [Erased(V) EXCEPT ![k] = Loaded(@, len, life)]
         /\ size' = Unsigned(size - Freed(V) + len)
  BY DEF Add
<1>2. PICK V \in Removed(len) :
         /\ cached' = (cached \ V) \cup {k}
         /\ info' = [Erased(V) EXCEPT ![k] = Loaded(@, len, life)]
         /\ size' = Unsigned(size - Freed(V) + len)
  BY <1>1
<1> DEFINE f == Erased(V)
<1>3. f \in [Keys -> Info] /\ \A j \in Keys : f[j] = IF j \in V THEN NoInfo ELSE info[j]
  <2>1. \A j \in Keys : f[j] = IF j \in V THEN NoInfo ELSE info[j]
    BY DEF Erased
  <2> QED BY <2>1, ErasedServed
<1>4. info' = [f EXCEPT ![k] = Loaded(f[k], len, life)]
  BY <1>2
<1> HIDE DEF f
<1>5. Loaded(f[k], len, life).body = len
  BY <1>3, LoadedBody
<1>6. info'[k] = Loaded(f[k], len, life) /\ \A j \in Keys \ {k} : info'[j] = f[j]
  BY <1>3, <1>4
<1>7. info'[k].ready
  BY AddKeeps
<1>8. Adds(k, len, V)
  BY <1>2, <1>3, <1>5, <1>6, <1>7 DEF Adds
<1> QED BY <1>8 DEF Add

----------------------------------------------------------------------------
(* The types, and nothing kept for a key that is not cached.               *)

LEMMA HeldFrom ==
    ASSUME Held, IInv', NEW k, cached' \subseteq cached \cup {k},
           size' \in 0..UINT_MAX, jobs' \in [Keys -> Nat], hung' \in BOOLEAN,
           \A j \in Keys \ cached' : info'[j] = NoInfo
    PROVE  Held'
<1>1. IsFiniteSet(cached \cup {k})
  BY FS_AddElement DEF Held
<1>2. IsFiniteSet(cached')
  BY <1>1, FS_Subset
<1> QED BY <1>2 DEF Held

(* Erase of cached keys, whatever happens to jobs and hung.                *)
LEMMA EraseHeld ==
    ASSUME Held, IInv', NEW V \in SUBSET cached, Erase(V),
           jobs' \in [Keys -> Nat], hung' \in BOOLEAN
    PROVE  Held'
<1>1. /\ cached' = cached \ V /\ size' = Unsigned(size - Freed(V))
      /\ \A j \in Keys : info'[j] = IF j \in V THEN NoInfo ELSE info[j]
  BY DEF Erase, Erased
<1>2. IInv /\ cached \in SUBSET Keys /\ IsFiniteSet(cached) /\ size \in Int
  BY DEF Held, IInv
<1>3. Freed(V) \in Nat
  BY <1>2, FreedBytes
<1>4. size' \in 0..UINT_MAX
  BY <1>1, <1>2, <1>3, UnsignedIs
<1>5. \A j \in Keys \ cached' : info'[j] = NoInfo
  BY <1>1 DEF Held
<1> QED BY <1>1, <1>4, <1>5, HeldFrom

(* A step that adds key k at most, and keeps the other entries.            *)
LEMMA KeptHeld ==
    ASSUME Held, IInv', NEW k \in Keys, cached' = cached \/ cached' = cached \cup {k},
           size' = size, jobs' \in [Keys -> Nat], hung' = hung,
           \A j \in Keys \ cached' : info'[j] = info[j]
    PROVE  Held'
<1>1. \A j \in Keys \ cached' : info'[j] = NoInfo
  BY DEF Held
<1>2. size' \in 0..UINT_MAX /\ hung' \in BOOLEAN /\ cached' \subseteq cached \cup {k}
  BY DEF Held
<1> QED BY <1>1, <1>2, HeldFrom

LEMMA LoadingHeld == ASSUME Held, IInv', NEW k \in Keys, Loading(k) PROVE Held'
<1>1. IInv /\ jobs \in [Keys -> Nat]
  BY DEF Held
<1>2. /\ cached' = cached \cup {k} /\ size' = size
      /\ \A j \in Keys \ {k} : info'[j] = info[j]
  BY <1>1, LoadingHolds
<1>3. jobs' \in [Keys -> Nat] /\ hung' = hung
  BY <1>1 DEF Loading
<1>4. \A j \in Keys \ cached' : info'[j] = info[j]
  BY <1>2
<1> QED BY <1>2, <1>3, <1>4, KeptHeld

LEMMA CancelHeld == ASSUME Held, IInv', NEW k \in Keys, Cancel(k) PROVE Held'
<1>1. IInv /\ jobs \in [Keys -> Nat]
  BY DEF Held
<1>2. /\ cached' = cached /\ size' = size
      /\ \A j \in Keys \ {k} : info'[j] = info[j]
  BY <1>1, CancelHolds
<1>3. jobs' \in [Keys -> Nat] /\ hung' = hung
  <2>1. jobs' = [jobs EXCEPT ![k] = jobs[k] - 1] /\ jobs[k] > 0 /\ hung' = hung
    BY DEF Cancel
  <2>2. jobs[k] - 1 \in Nat
    BY <1>1, <2>1
  <2> QED BY <1>1, <2>1, <2>2
<1>4. k \notin cached => info'[k] = info[k]
  BY DEF Cancel
<1>5. \A j \in Keys \ cached' : info'[j] = info[j]
  BY <1>2, <1>4
<1> QED BY <1>2, <1>3, <1>5, KeptHeld

LEMMA AddHeld == ASSUME Held, IInv', NEW k \in Keys, Add(k) PROVE Held'
<1>1. /\ IInv /\ jobs \in [Keys -> Nat] /\ cached \in SUBSET Keys
      /\ IsFiniteSet(cached) /\ size \in Int
  BY DEF Held, IInv
<1>2. PICK len \in Sizes : \E V \in Removed(len) : Adds(k, len, V)
  BY <1>1, AddHolds
<1>3. PICK V \in Removed(len) : Adds(k, len, V)
  BY <1>2
<1>4. V \in SUBSET cached
  BY DEF Removed, Prefixes
<1>5. Freed(V) \in Nat
  BY <1>1, <1>4, FreedBytes
<1>6. size - Freed(V) + len \in Int
  BY <1>1, <1>5, CacheAssumption
<1>7. size' \in 0..UINT_MAX
  BY <1>3, <1>6, UnsignedIs DEF Adds
<1>8. jobs' \in [Keys -> Nat] /\ hung' = hung
  <2>1. jobs' = [jobs EXCEPT ![k] = jobs[k] - 1] /\ jobs[k] > 0 /\ hung' = hung
    BY DEF Add
  <2>2. jobs[k] - 1 \in Nat
    BY <1>1, <2>1
  <2> QED BY <1>1, <2>1, <2>2
<1>9. \A j \in Keys \ cached' : info'[j] = NoInfo
  BY <1>3, <1>4 DEF Adds, Held
<1>10. cached' \subseteq cached \cup {k} /\ hung' \in BOOLEAN
  BY <1>3, <1>8 DEF Adds, Held
<1> QED BY <1>7, <1>8, <1>9, <1>10, HeldFrom

LEMMA ClearHeld == ASSUME Held, IInv', Clear PROVE Held'
<1>1. /\ cached' = {} /\ \A j \in Keys : info'[j] = NoInfo
      /\ UNCHANGED <<size, jobs, hung>>
  BY DEF Clear
<1> QED BY <1>1, HeldFrom DEF Held

(* The steps that remove entries on purpose.                               *)
Erases(k, V) ==
    /\ V \in SUBSET cached /\ Erase(V) /\ jobs' = jobs
    /\ \/ V = {k} /\ hung' = hung
       \/ hung' = TRUE /\ AddForever(k)

LEMMA ErasesWhich ==
    ASSUME Held, NEW k \in Keys, AddForever(k) \/ Invalidate(k) \/ Expire(k)
    PROVE  \E V : Erases(k, V)
<1>1. CASE AddForever(k)
  BY <1>1 DEF AddForever, Erases
<1>2. CASE Invalidate(k)
  BY <1>2 DEF Invalidate, Erases
<1>3. CASE Expire(k)
  BY <1>3 DEF Expire, Erases
<1> QED BY <1>1, <1>2, <1>3

(* The steps that leave size and every body alone.                         *)
Quiet ==
    /\ cached' = cached /\ size' = size /\ jobs' = jobs /\ hung' = hung
    /\ KeepsBodies /\ KeepsReady /\ \A k \in Keys \ cached : info'[k] = info[k]

LEMMA QuietWhich ==
    ASSUME Held,
           \/ UNCHANGED vars \/ Tick
           \/ \E k \in Keys, cb \in Callbacks, arg \in Args : GetNotified(k, cb, arg)
    PROVE  Quiet
<1>0. IInv /\ info \in [Keys -> Info]
  BY DEF Held, IInv
<1>1. CASE UNCHANGED vars
  BY <1>1 DEF vars, Quiet, KeepsBodies, KeepsReady
<1>2. CASE Tick
  <2>1. /\ jobs' = jobs /\ hung' = hung
        /\ info' = [k \in Keys |-> [info[k] EXCEPT !.left = IF @ > 0 THEN @ - 1 ELSE 0]]
    BY <1>2 DEF Tick
  <2>2. ASSUME NEW k \in Keys \ cached PROVE info'[k] = info[k]
    <3>1. info[k] = NoInfo
      BY DEF Held
    <3>2. NoInfo.left = 0 /\ [NoInfo EXCEPT !.left = 0] = NoInfo
      <4>1. NoInfo.left = 0
        BY DEF NoInfo
      <4>2. NoInfo \in Info
        BY NoInfoServed DEF Served
      <4> QED BY <4>1, <4>2 DEF Info
    <3>3. info'[k] = [info[k] EXCEPT !.left = IF @ > 0 THEN @ - 1 ELSE 0]
      BY <2>1
    <3>4. info'[k] = [NoInfo EXCEPT !.left = 0]
      BY <3>1, <3>2, <3>3
    <3> QED BY <3>1, <3>2, <3>4
  <2> QED BY <1>0, <1>2, <2>1, <2>2, TickHolds DEF Quiet
<1>3. CASE \E k \in Keys, cb \in Callbacks, arg \in Args : GetNotified(k, cb, arg)
  <2>1. PICK k \in Keys, cb \in Callbacks, arg \in Args : GetNotified(k, cb, arg)
    BY <1>3
  <2>2. cached' = cached /\ size' = size /\ KeepsBodies /\ KeepsReady
    BY <1>0, <2>1, GetNotifiedHolds
  <2>3. k \in cached /\ info' = [info EXCEPT ![k].callbacks[cb] = arg]
        /\ jobs' = jobs /\ hung' = hung
    BY <2>1 DEF GetNotified
  <2>4. \A j \in Keys \ cached : info'[j] = info[j]
    BY <1>0, <2>3
  <2> QED BY <2>2, <2>3, <2>4 DEF Quiet
<1> QED BY <1>1, <1>2, <1>3

LEMMA Kinds ==
    ASSUME Held, [Next]_vars
    PROVE  \/ Quiet
           \/ Clear
           \/ \E k \in Keys :
                 Loading(k) \/ Cancel(k) \/ Add(k) \/ \E V : Erases(k, V)
<1>1. CASE \/ UNCHANGED vars \/ Tick
           \/ \E k \in Keys, cb \in Callbacks, arg \in Args : GetNotified(k, cb, arg)
  BY <1>1, QuietWhich
<1>2. CASE \E k \in Keys : AddForever(k) \/ Invalidate(k) \/ Expire(k)
  BY <1>2, ErasesWhich
<1> QED BY <1>1, <1>2 DEF Next

LEMMA NextHeld == ASSUME Held, [Next]_vars PROVE Held'
<1>0. IInv /\ IInv'
  BY NextInv DEF Held
<1>1. CASE Quiet
  BY <1>0, <1>1 DEF Quiet, Held
<1>2. CASE Clear
  BY <1>0, <1>2, ClearHeld
<1>3. ASSUME NEW k \in Keys, Loading(k) \/ Cancel(k) \/ Add(k)
      PROVE  Held'
  BY <1>0, <1>3, LoadingHeld, CancelHeld, AddHeld
<1>4. ASSUME NEW k \in Keys, NEW V, Erases(k, V)
      PROVE  Held'
  <2>1. jobs' \in [Keys -> Nat] /\ hung' \in BOOLEAN
    BY <1>4 DEF Erases, Held
  <2> QED BY <1>0, <1>4, <2>1, EraseHeld DEF Erases
<1> QED BY <1>1, <1>2, <1>3, <1>4, Kinds

LEMMA InitHeld == Init => Held
<1> SUFFICES ASSUME Init PROVE Held
  OBVIOUS
<1>1. IInv
  BY InitInv DEF TInv
<1>2. 0 \in 0..UINT_MAX
  BY CacheAssumption
<1> QED BY <1>1, <1>2, FS_EmptySet DEF Held, Init

(* Every variable has its type, and what is not cached leaves nothing      *)
(* behind in the entries.                                                  *)
THEOREM CacheTyped == Spec => []TypeOK
<1>1. Held => TypeOK
  BY DEF Held, IInv, TypeOK
<1> QED BY <1>1, InitHeld, NextHeld, PTL DEF Spec

----------------------------------------------------------------------------
(***************************************************************************)
(* The limit.  size never falls below what is stored, even for a user who  *)
(* makes it count too much, so nothing wraps and a new body is let in only *)
(* where there is room.                                                    *)
(***************************************************************************)
Within == MaxSize > 0 => Body(info, cached) <= size /\ size <= MaxSize

LEMMA SameStored ==
    ASSUME Held, NEW S \in SUBSET cached, \A j \in S : info'[j].body = info[j].body
    PROVE  Body(info', S) = Body(info, S)
<1>1. IsFiniteSet(S)
  BY FS_Subset DEF Held
<1> QED BY <1>1, BodySame

(* Taking keys off cannot make size wrap.                                  *)
LEMMA RoomFreed ==
    ASSUME Held, Within, MaxSize > 0, NEW V \in SUBSET cached
    PROVE  /\ Freed(V) \in Nat
           /\ size - Freed(V) \in 0..MaxSize
           /\ Unsigned(size - Freed(V)) = size - Freed(V)
           /\ Body(info, cached \ V) \in Nat
           /\ Body(info, cached \ V) <= size - Freed(V)
<1>1. IInv /\ cached \in SUBSET Keys /\ IsFiniteSet(cached) /\ size \in 0..UINT_MAX
  BY DEF Held, IInv
<1>2. /\ Freed(V) \in Nat /\ Body(info, cached \ V) \in Nat
      /\ Body(info, cached \ V) + Freed(V) <= Body(info, cached)
  BY <1>1, FreedBytes
<1>3. Body(info, cached) \in Nat
  BY <1>1, BytesNat
<1>4. Body(info, cached) <= size /\ size <= MaxSize
  BY DEF Within
<1>5. size - Freed(V) \in 0..MaxSize /\ size - Freed(V) \in 0..UINT_MAX
  BY <1>1, <1>2, <1>3, <1>4, CacheAssumption
<1>6. Unsigned(size - Freed(V)) = size - Freed(V)
  BY <1>5, UnsignedIs
<1> QED BY <1>1, <1>2, <1>3, <1>4, <1>5, <1>6

LEMMA EraseWithin ==
    ASSUME Held, Within, NEW V \in SUBSET cached, Erase(V)
    PROVE  Within'
<1> SUFFICES ASSUME MaxSize > 0
             PROVE  Body(info', cached') <= size' /\ size' <= MaxSize
  BY DEF Within
<1>1. cached' = cached \ V /\ size' = Unsigned(size - Freed(V))
  BY DEF Erase
<1>2. \A j \in cached \ V : info'[j] = info[j]
  BY DEF Erase, Erased, Held, IInv
<1>3. Body(info', cached') = Body(info, cached \ V)
  BY <1>1, <1>2, SameStored
<1>4. /\ size - Freed(V) \in 0..MaxSize /\ Unsigned(size - Freed(V)) = size - Freed(V)
      /\ Body(info, cached \ V) <= size - Freed(V)
  BY RoomFreed
<1> QED BY <1>1, <1>3, <1>4, CacheAssumption

LEMMA KeptWithin ==
    ASSUME Held, Held', Within, NEW k \in Keys, cached' = cached \/ cached' = cached \cup {k},
           size' = size, KeepsBodies
    PROVE  Within'
<1>1. IInv /\ cached \in SUBSET Keys /\ \A j \in cached : info'[j].body = info[j].body
  BY DEF Held, IInv, KeepsBodies
<1>2. Body(info', cached) = Body(info, cached)
  BY <1>1, SameStored
<1>3. CASE k \in cached \/ cached' = cached
  <2>1. cached' = cached
    BY <1>3
  <2> QED BY <1>2, <2>1 DEF Within
<1>4. CASE k \notin cached /\ cached' = cached \cup {k}
  <2>1. info'[k].body = 0
    BY <1>4 DEF Held, KeepsBodies, NoInfo
  <2>2. IsFiniteSet(cached') /\ k \in cached' /\ cached' \ {k} = cached
    BY <1>4 DEF Held
  <2>3. \A j \in cached' : info'[j].body \in Nat
    BY DEF Held, IInv, Info
  <2>4. Body(info', cached') = info'[k].body + Body(info', cached)
    BY <2>2, <2>3, BodyRemove
  <2>5. Body(info, cached) \in Nat
    BY <1>1, BytesNat DEF Held
  <2> QED BY <1>2, <2>1, <2>4, <2>5 DEF Within
<1> QED BY <1>3, <1>4

LEMMA AddWithin ==
    ASSUME Held, Held', Within, NEW k \in Keys, Add(k)
    PROVE  Within'
<1> SUFFICES ASSUME MaxSize > 0
             PROVE  Body(info', cached') <= size' /\ size' <= MaxSize
  BY DEF Within
<1>1. PICK len \in Sizes : \E V \in Removed(len) : Adds(k, len, V)
  BY AddHolds DEF Held
<1>2. PICK V \in Removed(len) : Adds(k, len, V)
  BY <1>1
<1>3. V \in SUBSET cached /\ ~Full(len, V)
  BY DEF Removed, Prefixes
<1> DEFINE F == Freed(V)
           R == cached \ V
           Q == R \ {k}
<1>4. /\ F \in Nat /\ size - F \in 0..MaxSize /\ Unsigned(size - F) = size - F
      /\ Body(info, R) \in Nat /\ Body(info, R) <= size - F
  BY <1>3, RoomFreed
<1>5. cached' = R \cup {k} /\ size' = Unsigned(size - F + len)
  BY <1>2 DEF Adds
<1>6. R \subseteq cached /\ cached \subseteq Keys /\ IsFiniteSet(R) /\ IInv
  BY FS_Subset DEF Held, IInv
<1>7. ~(Unsigned(size - F) + len > MaxSize)
  BY <1>3 DEF Full
<1>8. \A j \in Q : info'[j] = info[j]
  BY <1>2, <1>6 DEF Adds
<1> HIDE DEF F
<1>9. len \in Nat /\ MaxSize \in Nat /\ UINT_MAX \in Nat /\ MaxSize <= UINT_MAX
  BY CacheAssumption
<1>10. size' = size - F + len /\ size' <= MaxSize
  <2>1. size - F + len \in 0..UINT_MAX /\ size - F + len <= MaxSize
    BY <1>4, <1>7, <1>9
  <2> QED BY <1>5, <2>1, UnsignedIs
<1>11. Body(info', Q) = Body(info, Q)
  BY <1>6, <1>8, SameStored
<1>12. Body(info, Q) \in Nat /\ Body(info, Q) <= Body(info, R)
  <2>0. R \in SUBSET Keys /\ {k} \cap R \in SUBSET R /\ R \ ({k} \cap R) = Q
    BY <1>6
  <2>1. Body(info, Q) \in Nat /\ Body(info, Q) + Freed({k} \cap R) <= Body(info, R)
        /\ Freed({k} \cap R) \in Nat
    BY <1>6, <2>0, FreedBytes
  <2> QED BY <1>4, <2>1
<1>13. Body(info', cached') = len + Body(info', Q)
  <2>1. \A j \in cached' : info'[j].body \in Nat
    BY DEF Held, IInv, Info
  <2>2. IsFiniteSet(cached') /\ k \in cached' /\ cached' \ {k} = Q
    BY <1>5 DEF Held
  <2>3. Body(info', cached') = info'[k].body + Body(info', Q)
    BY <2>1, <2>2, BodyRemove
  <2> QED BY <1>2, <2>3 DEF Adds
<1> HIDE DEF R, Q
<1> QED BY <1>4, <1>9, <1>10, <1>11, <1>12, <1>13, CacheAssumption DEF Held

LEMMA NextWithin == ASSUME Held, Within, [Next]_vars PROVE Within'
<1>0. Held' /\ IInv
  BY NextHeld DEF Held
<1>1. CASE Quiet
  <2>1. \A j \in cached : info'[j].body = info[j].body
    BY <1>1 DEF Quiet, KeepsBodies, Held, IInv
  <2>2. Body(info', cached) = Body(info, cached)
    BY <2>1, SameStored
  <2> QED BY <1>1, <2>2 DEF Quiet, Within
<1>2. CASE Clear
  <2>1. Body(info', cached') = 0 /\ size' = size
    BY <1>2, BodyEmpty DEF Clear
  <2> QED BY <2>1 DEF Within, Held
<1>3. ASSUME NEW k \in Keys, Loading(k) PROVE Within'
  BY <1>0, <1>3, LoadingHolds, KeptWithin
<1>4. ASSUME NEW k \in Keys, Cancel(k) PROVE Within'
  BY <1>0, <1>4, CancelHolds, KeptWithin
<1>5. ASSUME NEW k \in Keys, Add(k) PROVE Within'
  BY <1>0, <1>5, AddWithin
<1>6. ASSUME NEW k \in Keys, NEW V, Erases(k, V) PROVE Within'
  BY <1>6, EraseWithin DEF Erases
<1> QED BY <1>1, <1>2, <1>3, <1>4, <1>5, <1>6, Kinds

LEMMA InitWithin == Init => Within
BY BodyEmpty, CacheAssumption DEF Init, Within

LEMMA WithinLimit == Held /\ Within => LimitHolds
<1> SUFFICES ASSUME Held, Within, MaxSize > 0 PROVE Stored <= MaxSize
  BY DEF LimitHolds
<1>1. Body(info, cached) \in Nat
  BY BytesNat DEF Held, IInv
<1>2. Body(info, cached) <= size /\ size <= MaxSize /\ size \in 0..UINT_MAX
  BY DEF Within, Held
<1> QED BY <1>1, <1>2, StoredIs, CacheAssumption

(* The bodies held never exceed the limit, for every user of the cache.    *)
THEOREM LimitIsKept == Spec => []LimitHolds
<1>1. Init => Held /\ Within
  BY InitHeld, InitWithin
<1>2. Held /\ Within /\ [Next]_vars => Held' /\ Within'
  BY NextHeld, NextWithin
<1> QED BY <1>1, <1>2, WithinLimit, PTL DEF Spec

----------------------------------------------------------------------------
(***************************************************************************)
(* The count, for a user who neither clears the cache nor loads what is    *)
(* loaded: what a step adds to the loaded bodies or takes off them is what *)
(* it does to size, modulo the width of an unsigned.                       *)
(***************************************************************************)
Sums == size = Body(info, LoadedKeys) % (UINT_MAX + 1)

LEMMA LoadedKeysIn ==
    ASSUME Held
    PROVE  /\ LoadedKeys \in SUBSET cached /\ LoadedKeys \in SUBSET Keys
           /\ IsFiniteSet(LoadedKeys)
           /\ \A V \in SUBSET cached : ReadyIn(V) = LoadedKeys \cap V
<1>1. cached \in SUBSET Keys
  BY DEF Held, IInv
<1>2. LoadedKeys \in SUBSET cached /\ LoadedKeys \in SUBSET Keys
  BY DEF LoadedKeys, IsLoaded
<1>3. IsFiniteSet(LoadedKeys)
  BY <1>2, FS_Subset DEF Held
<1>4. \A V \in SUBSET cached : ReadyIn(V) = LoadedKeys \cap V
  BY <1>1 DEF LoadedKeys, IsLoaded, ReadyIn
<1> QED BY <1>2, <1>3, <1>4

LEMMA LoadedFreed ==
    ASSUME Held, NEW V \in SUBSET cached
    PROVE  /\ Freed(V) \in Nat
           /\ Body(info, LoadedKeys) = Freed(V) + Body(info, LoadedKeys \ V)
           /\ Body(info, LoadedKeys \ V) \in Nat
<1> DEFINE L == LoadedKeys
           R == L \cap V
<1>1. L \in SUBSET Keys /\ IsFiniteSet(L) /\ ReadyIn(V) = R /\ IInv /\ cached \in SUBSET Keys
  BY LoadedKeysIn DEF Held, IInv
<1>2. Freed(V) = Body(info, R) /\ Freed(V) \in Nat
  BY <1>1, FreedIs, FreedBytes DEF Held
<1> HIDE DEF L
<1>3. \A j \in L : info[j].body \in Nat
  BY <1>1, BodyType
<1>4. R \in SUBSET L /\ L \ R = L \ V /\ L \ V \in SUBSET Keys
  BY <1>1
<1> HIDE DEF R
<1>5. Body(info, L) = Body(info, R) + Body(info, L \ V)
  BY <1>1, <1>3, <1>4, BodySplit
<1>6. Body(info, L \ V) \in Nat
  BY <1>1, <1>4, BytesNat, FS_Subset
<1> QED BY <1>2, <1>5, <1>6 DEF L

LEMMA SumsShift ==
    ASSUME Held, Sums, NEW d \in Int
    PROVE  Unsigned(size + d) = (Body(info, LoadedKeys) + d) % (UINT_MAX + 1)
<1> DEFINE b == Body(info, LoadedKeys)
           m == UINT_MAX + 1
<1>1. b \in Int
  BY LoadedKeysIn, BytesNat DEF Held
<1>2. m \in Nat /\ m > 0
  BY CacheAssumption
<1>3. size = b % m /\ Unsigned(size + d) = (size + d) % m
  BY DEF Sums, Unsigned
<1> HIDE DEF b, m
<1>4. ((b % m) + d) % m = (b + d) % m
  BY <1>1, <1>2, ModShift
<1>5. Unsigned(size + d) = (b + d) % m
  BY <1>3, <1>4
<1> QED BY <1>5 DEF b, m

LEMMA SameSums ==
    ASSUME Held, Sums, LoadedKeys' = LoadedKeys, size' = size, KeepsBodies
    PROVE  Sums'
<1>1. \A j \in LoadedKeys : info'[j].body = info[j].body
  BY DEF LoadedKeys, KeepsBodies
<1>2. Body(info', LoadedKeys) = Body(info, LoadedKeys)
  BY <1>1, LoadedKeysIn, SameStored
<1> QED BY <1>2 DEF Sums

LEMMA EraseSums ==
    ASSUME Held, Sums, NEW V \in SUBSET cached, Erase(V)
    PROVE  Sums'
<1> DEFINE L == LoadedKeys
           R == L \ V
<1>1. /\ cached' = cached \ V /\ size' = Unsigned(size - Freed(V))
      /\ \A j \in Keys : info'[j] = IF j \in V THEN NoInfo ELSE info[j]
  BY DEF Erase, Erased
<1>2. L' = R
  BY <1>1 DEF LoadedKeys, IsLoaded
<1>3. R \in SUBSET cached /\ \A j \in R : info'[j] = info[j]
  BY <1>1, LoadedKeysIn
<1>4. Body(info', R) = Body(info, R)
  BY <1>3, SameStored
<1>5. Freed(V) \in Nat /\ Body(info, L) = Freed(V) + Body(info, R) /\ Body(info, R) \in Nat
  BY LoadedFreed
<1>6. Unsigned(size + (0 - Freed(V))) = (Body(info, L) + (0 - Freed(V))) % (UINT_MAX + 1)
  <2>1. 0 - Freed(V) \in Int
    BY <1>5
  <2> QED BY <2>1, SumsShift
<1> HIDE DEF L, R
<1>7. /\ Body(info, L) + (0 - Freed(V)) = Body(info, R)
      /\ size + (0 - Freed(V)) = size - Freed(V)
  BY <1>5 DEF Held
<1>8. size' = Body(info', R) % (UINT_MAX + 1)
  BY <1>1, <1>4, <1>6, <1>7
<1>9. LoadedKeys' = R
  BY <1>2 DEF L
<1> QED BY <1>8, <1>9 DEF Sums

LEMMA AddSums ==
    ASSUME Held, Held', Sums, "reuse" \notin Uses, NEW k \in Keys, Add(k)
    PROVE  Sums'
<1> DEFINE L == LoadedKeys
<1>1. /\ MayLoad(k)
      /\ \E len \in Sizes : \E V \in Removed(len) : Adds(k, len, V)
  BY AddHolds DEF Held
<1>2. PICK len \in Sizes : \E V \in Removed(len) : Adds(k, len, V)
  BY <1>1
<1>3. PICK V \in Removed(len) : Adds(k, len, V)
  BY <1>2
<1> DEFINE R == L \ V
<1>4. V \in SUBSET cached /\ k \notin L /\ len \in Nat
  BY <1>1, CacheAssumption DEF Removed, Prefixes, MayLoad, LoadedKeys
<1>5. /\ cached' = (cached \ V) \cup {k} /\ size' = Unsigned(size - Freed(V) + len)
      /\ info'[k].body = len /\ info'[k].ready
      /\ \A j \in Keys \ {k} : info'[j] = IF j \in V THEN NoInfo ELSE info[j]
  BY <1>3 DEF Adds
<1>6. L' = R \cup {k}
  BY <1>4, <1>5 DEF LoadedKeys, IsLoaded
<1>7. R \in SUBSET cached /\ \A j \in R : info'[j] = info[j]
  <2>1. L \in SUBSET cached /\ L \in SUBSET Keys
    BY LoadedKeysIn
  <2> QED BY <1>4, <1>5, <2>1
<1>8. Body(info', R) = Body(info, R)
  BY <1>7, SameStored
<1>9. Freed(V) \in Nat /\ Body(info, L) = Freed(V) + Body(info, R) /\ Body(info, R) \in Nat
  BY <1>4, LoadedFreed
<1>10. k \notin R
  BY <1>4
<1> HIDE DEF L, R
<1>11. Body(info', R \cup {k}) = len + Body(info', R)
  <2>1. IsFiniteSet(R \cup {k})
    BY <1>7, FS_Subset, FS_AddElement DEF Held
  <2>2. R \cup {k} \subseteq Keys /\ (R \cup {k}) \ {k} = R
    BY <1>7, <1>10 DEF Held, IInv
  <2>3. \A j \in R \cup {k} : info'[j].body \in Nat
    BY <2>2 DEF Held, IInv, Info
  <2>4. Body(info', R \cup {k}) = info'[k].body + Body(info', (R \cup {k}) \ {k})
    BY <2>1, <2>3, BodyRemove
  <2> QED BY <1>5, <2>2, <2>4
<1>12. len - Freed(V) \in Int
  BY <1>4, <1>9
<1>13. Unsigned(size + (len - Freed(V))) = (Body(info, L) + (len - Freed(V))) % (UINT_MAX + 1)
  BY <1>12, SumsShift DEF L
<1>14. /\ Body(info, L) + (len - Freed(V)) = len + Body(info, R)
       /\ size + (len - Freed(V)) = size - Freed(V) + len
  BY <1>4, <1>9 DEF Held
<1>15. size' = Body(info', R \cup {k}) % (UINT_MAX + 1)
  BY <1>5, <1>8, <1>11, <1>13, <1>14
<1>16. LoadedKeys' = R \cup {k}
  BY <1>6 DEF L
<1> QED BY <1>15, <1>16 DEF Sums

LEMMA NextSums ==
    ASSUME Held, Sums, "clear" \notin Uses, "reuse" \notin Uses, [Next]_vars
    PROVE  Sums'
<1>0. Held' /\ IInv /\ cached \in SUBSET Keys
  BY NextHeld DEF Held, IInv
<1>1. CASE Quiet
  <2>1. LoadedKeys' = LoadedKeys
    BY <1>1 DEF Quiet, LoadedKeys, IsLoaded, KeepsReady
  <2> QED BY <1>1, <2>1, SameSums DEF Quiet
<1>2. ASSUME NEW k \in Keys, Loading(k) PROVE Sums'
  <2>1. /\ cached' = cached \cup {k} /\ size' = size /\ KeepsBodies
        /\ ~info'[k].ready /\ ~IsLoaded(k)
        /\ \A j \in Keys \ {k} : info'[j] = info[j]
    BY <1>0, <1>2, LoadingHolds DEF MayLoad
  <2>2. LoadedKeys' = LoadedKeys
    BY <2>1 DEF LoadedKeys, IsLoaded
  <2> QED BY <2>1, <2>2, SameSums
<1>3. ASSUME NEW k \in Keys, Cancel(k) PROVE Sums'
  <2>1. /\ cached' = cached /\ size' = size /\ KeepsBodies
        /\ ~IsLoaded(k)
        /\ info'[k].ready => info'[k] = info[k]
        /\ \A j \in Keys \ {k} : info'[j] = info[j]
    BY <1>0, <1>3, CancelHolds DEF MayLoad
  <2>2. LoadedKeys' = LoadedKeys
    BY <2>1 DEF LoadedKeys, IsLoaded
  <2> QED BY <2>1, <2>2, SameSums
<1>4. ASSUME NEW k \in Keys, Add(k) PROVE Sums'
  BY <1>0, <1>4, AddSums
<1>5. ASSUME NEW k \in Keys, NEW V, Erases(k, V) PROVE Sums'
  BY <1>5, EraseSums DEF Erases
<1>6. ~Clear
  BY DEF Clear
<1> QED BY <1>1, <1>2, <1>3, <1>4, <1>5, <1>6, Kinds

LEMMA InitSums == Init => Sums
<1> SUFFICES ASSUME Init PROVE Sums
  OBVIOUS
<1>1. LoadedKeys = {} /\ size = 0
  BY DEF Init, LoadedKeys, IsLoaded
<1> QED BY <1>1, BodyEmpty, CacheAssumption DEF Sums

(* size is what the loaded entries hold, modulo the width of an unsigned.  *)
THEOREM SizeIsTheSum ==
    ASSUME "clear" \notin Uses, "reuse" \notin Uses PROVE Spec => []SizeIsSum
<1>1. Init => Held /\ Sums
  BY InitHeld, InitSums
<1>2. Held /\ Sums /\ [Next]_vars => Held' /\ Sums'
  BY NextHeld, NextSums
<1>3. Sums => SizeIsSum
  BY LoadedBytesIs DEF Sums, SizeIsSum
<1> QED BY <1>1, <1>2, <1>3, PTL DEF Spec

----------------------------------------------------------------------------
(***************************************************************************)
(* The loop of add.  The sets that it may have removed are the prefixes of *)
(* one order, so of those that make room one is the least.                 *)
(***************************************************************************)
LEMMA TimesAreNat ==
    ASSUME IInv, NEW k \in Keys
    PROVE  GetTime(info[k]) \in Nat /\ k \in Nat
<1>1. info[k] \in Info
  BY DEF IInv
<1> QED BY <1>1, CacheAssumption DEF GetTime, Info

LEMMA BeforeAsymmetric ==
    ASSUME IInv, NEW j \in Keys, NEW k \in Keys, Before(j, k)
    PROVE  ~Before(k, j)
<1> DEFINE s == GetTime(info[j])
           t == GetTime(info[k])
<1>1. s \in Nat /\ t \in Nat /\ j \in Nat /\ k \in Nat
  BY TimesAreNat
<1>2. s < t \/ (s = t /\ j < k)
  BY DEF Before
<1> HIDE DEF s, t
<1>3. ~(t < s \/ (t = s /\ k < j))
  BY <1>1, <1>2
<1> QED BY <1>3 DEF Before, s, t

LEMMA PrefixesChain ==
    ASSUME IInv, NEW V \in Prefixes, NEW W \in Prefixes
    PROVE  V \subseteq W \/ W \subseteq V
<1> SUFFICES ASSUME NEW a \in V, a \notin W, NEW b \in W, b \notin V
             PROVE  FALSE
  OBVIOUS
<1>1. a \in cached /\ b \in cached /\ cached \subseteq Keys
  BY DEF Prefixes, IInv
<1>2. Before(a, b)
  BY <1>1 DEF Prefixes
<1>3. Before(b, a)
  BY <1>1 DEF Prefixes
<1> QED BY <1>1, <1>2, <1>3, BeforeAsymmetric

(* Some prefix makes room: none if there is no limit, everything if there  *)
(* is.                                                                     *)
LEMMA RoomSomewhere ==
    ASSUME Held, Within, Sums, NEW len \in Sizes, MaxSize > 0 => len <= MaxSize
    PROVE  \E V \in Prefixes : ~Full(len, V)
<1>1. CASE ~(MaxSize > 0)
  BY <1>1 DEF Prefixes, Full
<1>2. CASE MaxSize > 0
  <2> DEFINE L == LoadedKeys
  <2>1. /\ Freed(cached) \in Nat
        /\ Body(info, L) = Freed(cached) + Body(info, L \ cached)
    BY LoadedFreed
  <2>2. L \ cached = {} /\ Body(info, {}) = 0
    BY LoadedKeysIn, BodyEmpty
  <2>3. /\ size - Freed(cached) \in 0..MaxSize
        /\ Unsigned(size - Freed(cached)) = size - Freed(cached)
    BY <1>2, RoomFreed
  <2>4. size = Body(info, L) % (UINT_MAX + 1)
    BY DEF Sums
  <2> HIDE DEF L
  <2>5. Body(info, L) = Freed(cached) /\ Freed(cached) \in 0..UINT_MAX
    <3>1. Body(info, L) = Freed(cached)
      BY <2>1, <2>2
    <3>2. UINT_MAX \in Nat /\ size \in 0..UINT_MAX /\ MaxSize \in Nat
      BY CacheAssumption DEF Held
    <3> QED BY <2>1, <2>3, <3>1, <3>2
  <2>6. size = Freed(cached)
    BY <2>4, <2>5, UnsignedIs DEF Unsigned
  <2>7. ~Full(len, cached)
    BY <2>1, <2>3, <2>6, CacheAssumption DEF Full, Held
  <2>8. cached \in Prefixes
    BY DEF Prefixes
  <2> QED BY <2>7, <2>8
<1> QED BY <1>1, <1>2

LEMMA LoopEnds ==
    ASSUME Held, Within, Sums, NEW len \in Sizes, MaxSize > 0 => len <= MaxSize
    PROVE  Removed(len) # {}
<1> DEFINE D == {V \in Prefixes : ~Full(len, V)}
<1>1. D # {}
  BY RoomSomewhere
<1>2. D \subseteq SUBSET cached
  BY DEF Prefixes
<1>3. \A V : V \in D <=> V \in Prefixes /\ ~Full(len, V)
  OBVIOUS
<1> HIDE DEF D
<1>4. PICK V \in D : \A W \in D : W \subseteq V => W = V
  BY <1>1, <1>2, Minimal DEF Held
<1>5. ASSUME NEW W \in Prefixes PROVE Full(len, W) \/ V \subseteq W
  <2> SUFFICES ASSUME ~Full(len, W) PROVE V \subseteq W
    OBVIOUS
  <2>1. W \in D /\ V \in Prefixes
    BY <1>3, <1>4
  <2>2. V \subseteq W \/ W \subseteq V
    BY <2>1, PrefixesChain DEF Held
  <2> QED BY <1>4, <2>1, <2>2
<1>6. V \in Removed(len)
  BY <1>3, <1>4, <1>5 DEF Removed
<1> QED BY <1>6

EInv == Held /\ Within /\ Sums /\ ~hung

LEMMA NextEnds ==
    ASSUME EInv, "clear" \notin Uses, "reuse" \notin Uses,
           MaxSize > 0 => \A len \in Sizes : len <= MaxSize,
           [Next]_vars
    PROVE  EInv'
<1>1. Held' /\ Within' /\ Sums'
  BY NextHeld, NextWithin, NextSums DEF EInv
<1>2. ASSUME NEW k \in Keys PROVE ~AddForever(k)
  <2>1. \A len \in Sizes : Removed(len) # {}
    BY LoopEnds DEF EInv
  <2> QED BY <2>1 DEF AddForever
<1>3. hung' = hung
  <2>1. CASE Quiet
    BY <2>1 DEF Quiet
  <2>2. CASE Clear
    BY <2>2 DEF Clear
  <2>3. ASSUME NEW k \in Keys, Loading(k) \/ Cancel(k) \/ Add(k)
        PROVE  hung' = hung
    BY <2>3 DEF Loading, Cancel, Add
  <2>4. ASSUME NEW k \in Keys, NEW V, Erases(k, V) PROVE hung' = hung
    BY <1>2, <2>4 DEF Erases
  <2> QED BY <2>1, <2>2, <2>3, <2>4, Kinds DEF EInv
<1> QED BY <1>1, <1>3 DEF EInv

(* The loop of add ends whenever every body fits on its own, for a user    *)
(* who neither clears the cache nor loads what is loaded.                  *)
THEOREM TheLoopEnds ==
    ASSUME "clear" \notin Uses, "reuse" \notin Uses,
           MaxSize > 0 => \A len \in Sizes : len <= MaxSize
    PROVE  Spec => []AddEnds
<1>1. Init => EInv
  BY InitHeld, InitWithin, InitSums DEF EInv, Init
<1>2. EInv /\ [Next]_vars => EInv'
  BY NextEnds
<1>3. EInv => AddEnds
  BY DEF EInv, AddEnds
<1> QED BY <1>1, <1>2, <1>3, PTL DEF Spec

=============================================================================
