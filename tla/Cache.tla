-------------------------------- MODULE Cache --------------------------------
(***************************************************************************)
(* The response cache (src/sources/cache.cpp, src/includes/cache.hpp):     *)
(* entries that are being loaded or loaded, functions waiting for them,    *)
(* timers, and a limit on the bytes stored.  No handler of the repository  *)
(* uses it yet, so its user is anything that keeps to the header, and the  *)
(* liberties of Uses.                                                      *)
(*                                                                         *)
(* A public method is one action.  A function called back by getNotified   *)
(* or cancel is called last, so what it does to the cache is the next      *)
(* action; functions told by add do not call the cache again.              *)
(***************************************************************************)
EXTENDS Integers, FiniteSets, FiniteSetsExt

CONSTANTS
    Keys,           \* numbered in the order of CacheKey's operator<
    Callbacks,      \* functions to notify
    Args,           \* what they are called with
    Sizes,          \* lengths of bodies
    Lifetimes,      \* of data, in ticks; 0 is forever
    MaxSize,        \* max_size, 0 is no limit
    UINT_MAX,
    Uses,           \* what the user also does: "invalidate" a key, "clear",
                    \* "reuse" a key whose data is loaded (loading, add, cancel)
    MaxJobs         \* bound: jobs loading the same key at once

ASSUME CacheAssumption ==
    /\ Keys \in SUBSET Nat
    /\ UINT_MAX \in Nat
    /\ Sizes \in SUBSET Nat
    /\ Lifetimes \in SUBSET (0..UINT_MAX)
    /\ MaxSize \in 0..UINT_MAX
    /\ Uses \in SUBSET {"invalidate", "clear", "reuse"}
    /\ MaxJobs \in Nat
    /\ "none" \notin Args

VARIABLES
    cached,         \* keys of Cache::cache
    info,           \* [Keys -> Info]; NoInfo outside cached
    size,           \* Cache::size, unsigned
    jobs,           \* jobs loading a key (the user's, not the cache's)
    hung            \* the loop of add goes on forever

vars == <<cached, info, size, jobs, hung>>

(***************************************************************************)
(*   left        time until the timer fires                                *)
(*   body        data.body.length()                                        *)
(*   callbacks   the map from functions to arguments                       *)
(***************************************************************************)
Info == [loading : BOOLEAN, ready : BOOLEAN, timer_active : BOOLEAN,
         left : 0..UINT_MAX, body : Nat,
         callbacks : [Callbacks -> Args \cup {"none"}]]

NoInfo == [loading |-> FALSE, ready |-> FALSE, timer_active |-> FALSE,
           left |-> 0, body |-> 0, callbacks |-> [cb \in Callbacks |-> "none"]]

Init ==
    /\ cached = {}
    /\ info = [k \in Keys |-> NoInfo]
    /\ size = 0
    /\ jobs = [k \in Keys |-> 0]
    /\ hung = FALSE

----------------------------------------------------------------------------
(***************************************************************************)
(* Methods of CacheInfo.                                                   *)
(***************************************************************************)
Waiting(e) == {cb \in Callbacks : e.callbacks[cb] # "none"}

StopTimer(e) == [e EXCEPT !.timer_active = FALSE, !.left = 0]

SetTimout(e, time) == [e EXCEPT !.timer_active = TRUE, !.left = time]

GetTime(e) == IF e.timer_active THEN e.left ELSE UINT_MAX

SetLoading(e) == [e EXCEPT !.loading = TRUE, !.ready = FALSE]

(* What Cache::loading does to the entry: a timer of older data is stopped. *)
StartLoading(e) == StopTimer(SetLoading(e))

(* The first of the waiting functions is told, if there is one.            *)
CancelLoading(e) ==
    LET n == [e EXCEPT !.loading = FALSE, !.ready = FALSE]
    IN  IF Waiting(e) = {} THEN {n}
        ELSE {[n EXCEPT !.callbacks[cb] = "none"] : cb \in Waiting(e)}

SetLoadedOnly(e) == [e EXCEPT !.loading = FALSE, !.ready = TRUE]
                    \* slip: the functions stay listed

(* Every waiting function is told.                                         *)
SetLoaded(e) ==
    [e EXCEPT !.loading = FALSE, !.ready = TRUE,
              !.callbacks = [cb \in Callbacks |-> "none"]]

----------------------------------------------------------------------------
(***************************************************************************)
(* _remove_old_cache removes the entry whose timer fires first, the first  *)
(* key among equals; an entry without a timer has the largest time.        *)
(* Removing until enough is gone removes a prefix of that order.           *)
(***************************************************************************)
Before(j, k) ==
    \/ GetTime(info[j]) < GetTime(info[k])
    \/ GetTime(info[j]) = GetTime(info[k]) /\ j < k

(* What invalidate takes off size for these keys.                          *)
FreedNothing(V) == 0        \* slip: size is left alone
Freed(V) == MapThenSumSet(LAMBDA k : info[k].body, {k \in V : info[k].ready})

Unsigned(n) == n % (UINT_MAX + 1)

FullAlready(len, V) == MaxSize > 0 /\ size - Freed(V) > MaxSize
                            \* slip: the new body is not counted
Full(len, V) == MaxSize > 0 /\ Unsigned(size - Freed(V)) + len > MaxSize

Prefixes ==
    {V \in SUBSET cached : \A j \in V, k \in cached \ V : Before(j, k)}

(* The keys add removes before len bytes fit; none such if they never fit. *)
Removed(len) ==
    {V \in Prefixes :
        ~Full(len, V) /\ \A W \in Prefixes : Full(len, W) \/ V \subseteq W}

Erased(V) == [k \in Keys |-> IF k \in V THEN NoInfo ELSE info[k]]

Erase(V) ==
    /\ cached' = cached \ V
    /\ info' = Erased(V)
    /\ size' = Unsigned(size - Freed(V))

----------------------------------------------------------------------------
(***************************************************************************)
(* Methods of Cache, as a user calls them.                                 *)
(***************************************************************************)
IsLoading(k) == k \in cached /\ info[k].loading
IsLoaded(k) == k \in cached /\ info[k].ready

MayLoad(k) == "reuse" \in Uses \/ ~IsLoaded(k)

(* The user starts a job for a key that nobody loads.                      *)
Loading(k) ==
    /\ ~hung
    /\ MayLoad(k) /\ ~IsLoading(k) /\ jobs[k] < MaxJobs
    /\ cached' = cached \cup {k}
    /\ info' = [info EXCEPT ![k] = StartLoading(@)]
    /\ jobs' = [jobs EXCEPT ![k] = @ + 1]
    /\ UNCHANGED <<size, hung>>

(* A job ends without data.                                                *)
Cancel(k) ==
    /\ ~hung
    /\ jobs[k] > 0 /\ MayLoad(k)
    /\ jobs' = [jobs EXCEPT ![k] = @ - 1]
    /\ \/ k \in cached /\ \E e \in CancelLoading(info[k]) : info' = [info EXCEPT ![k] = e]
       \/ k \notin cached /\ UNCHANGED info
    /\ UNCHANGED <<cached, size, hung>>

Loaded(e, len, life) ==
    LET d == [e EXCEPT !.body = len]
    IN  SetLoaded(IF life > 0 THEN SetTimout(d, life) ELSE StopTimer(d))

(* A job ends with data.                                                   *)
Add(k) ==
    /\ ~hung
    /\ jobs[k] > 0 /\ MayLoad(k)
    /\ \E len \in Sizes, life \in Lifetimes : \E V \in Removed(len) :
          /\ cached' = (cached \ V) \cup {k}
          /\ info' = [Erased(V) EXCEPT ![k] = Loaded(@, len, life)]
          /\ size' = Unsigned(size - Freed(V) + len)
    /\ jobs' = [jobs EXCEPT ![k] = @ - 1]
    /\ UNCHANGED hung

(* The loop of add removes every entry and goes on.                        *)
AddForever(k) ==
    /\ ~hung
    /\ jobs[k] > 0 /\ MayLoad(k)
    /\ \E len \in Sizes : Removed(len) = {}
    /\ Erase(cached)
    /\ hung' = TRUE
    /\ UNCHANGED jobs

Clear ==
    /\ ~hung
    /\ "clear" \in Uses
    /\ cached' = {}
    /\ info' = [k \in Keys |-> NoInfo]
    /\ UNCHANGED <<size, jobs, hung>>

Invalidate(k) ==
    /\ ~hung
    /\ "invalidate" \in Uses
    /\ k \in cached
    /\ Erase({k})
    /\ UNCHANGED <<jobs, hung>>

(* A loaded key calls back at once; a key that is not cached is refused.   *)
GetNotified(k, cb, arg) ==
    /\ ~hung
    /\ k \in cached /\ ~info[k].ready
    /\ info' = [info EXCEPT ![k].callbacks[cb] = arg]
    /\ UNCHANGED <<cached, size, jobs, hung>>

----------------------------------------------------------------------------
(* A timer fires: _timeout, _onCacheTimer.                                 *)
ExpireStops(k) ==           \* slip: the timer is stopped, the data stays
    /\ ~hung
    /\ k \in cached /\ info[k].timer_active /\ info[k].left = 0
    /\ info' = [info EXCEPT ![k] = StopTimer(@)]
    /\ UNCHANGED <<cached, size, jobs, hung>>
Expire(k) ==
    /\ ~hung
    /\ k \in cached /\ info[k].timer_active /\ info[k].left = 0
    /\ Erase({k})
    /\ UNCHANGED <<jobs, hung>>

(* Time passes.                                                            *)
Tick ==
    /\ ~hung
    /\ \E k \in cached : info[k].left > 0
    /\ info' = [k \in Keys |->
                  [info[k] EXCEPT !.left = IF @ > 0 THEN @ - 1 ELSE 0]]
    /\ UNCHANGED <<cached, size, jobs, hung>>

Next ==
    \/ \E k \in Keys :
          \/ Loading(k) \/ Cancel(k) \/ Add(k) \/ AddForever(k)
          \/ Invalidate(k) \/ Expire(k)
          \/ \E cb \in Callbacks, arg \in Args : GetNotified(k, cb, arg)
    \/ Clear
    \/ Tick

Spec == Init /\ [][Next]_vars

(* libuv's clock goes on and runs the timers that are due.                 *)
FairSpec == Spec /\ WF_vars(Tick) /\ \A k \in Keys : WF_vars(Expire(k))

----------------------------------------------------------------------------
(***************************************************************************)
(* Safety.                                                                 *)
(***************************************************************************)
TypeOK ==
    /\ cached \in SUBSET Keys
    /\ info \in [Keys -> Info]
    /\ size \in 0..UINT_MAX
    /\ jobs \in [Keys -> Nat]
    /\ hung \in BOOLEAN
    /\ \A k \in Keys \ cached : info[k] = NoInfo

Stored == MapThenSumSet(LAMBDA k : info[k].body, cached)

(* The bodies held never exceed the limit, whatever the user does: neither *)
(* keys that are added again nor cleared ones make room that is not there  *)
(* (cache.cpp:153-170, cache.hpp:176).                                     *)
LimitHolds == MaxSize > 0 => Stored <= MaxSize

(* size is what the loaded entries hold, for a user who neither clears the *)
(* cache nor loads what is loaded (cache.cpp:161, 178-180).                *)
LoadedBytes == MapThenSumSet(LAMBDA k : info[k].body, {k \in Keys : IsLoaded(k)})

SizeIsSum == size = LoadedBytes % (UINT_MAX + 1)

(* add always ends (cache.cpp:155-159).                                    *)
AddEnds == ~hung

(* Nobody waits for data that is there already: who asks is told at once,  *)
(* and when data comes everyone is told (cache.cpp:97-104, 187-199).       *)
NobodyWaitsForLoaded ==
    \A k \in cached : info[k].ready => Waiting(info[k]) = {}

(* No timer fires for a key while it is loaded again: the timer of the old *)
(* data does not take the entry, and the functions that wait for the new   *)
(* data, away.  Whatever else the user does, also after a load that failed *)
(* and one that went on (cache.cpp:37, 141-145, 161-168).                  *)
LoadingUntimed == \A k \in Keys : IsLoading(k) => ~info[k].timer_active

(***************************************************************************)
(* Liveness.                                                               *)
(***************************************************************************)
(* Data with a lifetime does not stay for ever (cache.cpp:63-66, 106-109). *)
DataExpires ==
    \A k \in Keys : (IsLoaded(k) /\ info[k].timer_active) ~> ~IsLoaded(k)

=============================================================================
