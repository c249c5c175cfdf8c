------------------------ MODULE VerificationKeysProofs ------------------------
(***************************************************************************)
(* Proofs about VerificationKeys for any services, any threads, and any     *)
(* number of restarts of the broker.                                       *)
(***************************************************************************)
EXTENDS VerificationKeys, TLAPS

\* No copy, and no key in the hands of a thread, is newer than the broker's.
NothingNewer ==
  /\ \A s \in Services : cache[s] # None => cache[s] <= key
  /\ \A t \in Threads : /\ threads[t].token # None => threads[t].token <= key
                        /\ threads[t].held # None => threads[t].held <= key

HasToken == {"lookup", "fetch", "store", "reread", "check", "refused"}
HasKey == {"store", "reread", "check"}

\* What a thread of a service with no other thread knows: the answer it is
\* about to store is no older than the copy, and one fetched for the second
\* attempt is no older than the token, which was there before.
ThreadInv(t) ==
  /\ threads[t].pc \in {"idle", "lookup"} => ~threads[t].forced
  /\ threads[t].pc \in HasToken => threads[t].token # None
  /\ threads[t].pc \in {"store", "reread"} => threads[t].held # None
  /\ Alone(ServiceOf[t]) =>
       /\ threads[t].pc \in HasKey => threads[t].held # None
       /\ threads[t].pc = "store" /\ Cached(t) # None => threads[t].held >= Cached(t)
       /\ threads[t].pc = "reread" => Cached(t) = threads[t].held
       /\ threads[t].pc \in HasKey /\ threads[t].forced =>
            threads[t].held >= threads[t].token
       /\ threads[t].pc = "refused" => threads[t].token < key

\* The inductive invariant; a broker that is down has a start left.
IInv ==
  /\ TypeOK
  /\ ~up => key < MaxKey
  /\ NothingNewer
  /\ \A t \in Threads : ThreadInv(t)

\* Initially no service has a copy and no thread a token.
LEMMA InitIInv == Init => IInv
  BY ServicesAssumption DEF Init, IInv, TypeOK, NothingNewer, ThreadInv, Idle,
     Thread, ThreadPCs, HasToken, HasKey, AllKeys

\* A thread after its own step that writes two of its fields.
After(t, pc, token, held, forced) ==
  threads'[t] = [pc |-> pc, token |-> token, held |-> held, forced |-> forced]

\* The actions that write two fields of a thread.
LEMMA TwoFields ==
  ASSUME TypeOK, NEW t \in Threads
  PROVE  /\ Lookup(t) /\ Cached(t) # None =>
              After(t, "check", threads[t].token, Cached(t), threads[t].forced)
         /\ Fetch(t) /\ up = TRUE =>
              After(t, "store", threads[t].token, key, threads[t].forced)
         /\ Reread(t) =>
              After(t, "check", threads[t].token, Cached(t), threads[t].forced)
         /\ Refresh(t) =>
              After(t, "fetch", threads[t].token, threads[t].held, TRUE)
         /\ \A k \in AllKeys : Receive(t, k) =>
              After(t, "lookup", k, threads[t].held, threads[t].forced)
<1> USE DEF After
<1>1. threads[t] \in Thread /\ threads \in [Threads -> Thread]
  BY DEF TypeOK
<1>2. ASSUME Lookup(t), Cached(t) # None
      PROVE  After(t, "check", threads[t].token, Cached(t), threads[t].forced)
  <2> HIDE DEF Cached
  <2> QED
    BY <1>1, <1>2 DEF Lookup, Thread
<1>3. ASSUME Fetch(t), up = TRUE
      PROVE  After(t, "store", threads[t].token, key, threads[t].forced)
  BY <1>1, <1>3 DEF Fetch, Thread
<1>4. ASSUME Reread(t)
      PROVE  After(t, "check", threads[t].token, Cached(t), threads[t].forced)
  BY <1>1, <1>4 DEF Reread, Thread
<1>5. ASSUME Refresh(t)
      PROVE  After(t, "fetch", threads[t].token, threads[t].held, TRUE)
  BY <1>1, <1>5 DEF Refresh, Thread
<1>6. ASSUME NEW k \in AllKeys, Receive(t, k)
      PROVE  After(t, "lookup", k, threads[t].held, threads[t].forced)
  BY <1>1, <1>6 DEF Receive, Thread
<1> QED
  BY <1>2, <1>3, <1>4, <1>5, <1>6

\* No step writes another thread, or the copy of another service.
LEMMA OwnSteps ==
  ASSUME TypeOK, NEW t \in Threads,
         Verify(t) \/ \E k \in AllKeys : Receive(t, k)
  PROVE  /\ \A u \in Threads : u # t => threads'[u] = threads[u]
         /\ threads' = [threads EXCEPT ![t] = threads'[t]]
         /\ up' = up /\ key' = key
         /\ \A s \in Services :
              cache'[s] = cache[s] \/ (Store(t) /\ s = ServiceOf[t])
<1> USE DEF TypeOK
<1>1. CASE Lookup(t) \/ Fetch(t)
  BY <1>1 DEF Lookup, Fetch
<1>2. CASE Store(t)
  BY <1>2, ServicesAssumption DEF Store
<1>3. CASE Reread(t) \/ Accept(t) \/ Refresh(t)
  BY <1>3 DEF Reread, Accept, Refresh
<1>4. CASE Refuse(t) \/ Return(t)
  BY <1>4 DEF Refuse, Return
<1>5. CASE \E k \in AllKeys : Receive(t, k)
  BY <1>5 DEF Receive
<1> QED
  BY <1>1, <1>2, <1>3, <1>4, <1>5 DEF Verify

\* Every step of a thread keeps the types.
LEMMA VerifyType ==
  ASSUME TypeOK, NEW t \in Threads,
         Verify(t) \/ \E k \in AllKeys : Receive(t, k)
  PROVE  TypeOK'
<1>1. threads'[t] \in Thread
  <2>1. /\ threads[t] \in Thread /\ Cached(t) \in AllKeys \cup {None}
        /\ key \in AllKeys
        /\ threads[t].token \in AllKeys \cup {None}
        /\ threads[t].held \in AllKeys \cup {None}
        /\ threads[t].forced \in BOOLEAN
    BY ServicesAssumption DEF TypeOK, Cached, Thread
  <2>2. ASSUME NEW pc \in ThreadPCs, NEW token \in AllKeys \cup {None},
               NEW held \in AllKeys \cup {None}, NEW forced \in BOOLEAN,
               After(t, pc, token, held, forced)
        PROVE  threads'[t] \in Thread
    BY <2>2 DEF After, Thread
  <2>3. {"lookup", "fetch", "store", "check"} \subseteq ThreadPCs
    BY DEF ThreadPCs
  <2>4. CASE Lookup(t)
    <3>1. CASE Cached(t) = None
      BY <2>1, <2>3, <2>4, <3>1 DEF Lookup, TypeOK, Thread
    <3>2. CASE Cached(t) # None
      <4>1. After(t, "check", threads[t].token, Cached(t), threads[t].forced)
        BY <2>4, <3>2, TwoFields
      <4> QED
        BY <2>1, <2>2, <2>3, <4>1
    <3> QED
      BY <3>1, <3>2
  <2>5. CASE Fetch(t)
    <3>1. CASE up = TRUE
      <4>1. After(t, "store", threads[t].token, key, threads[t].forced)
        BY <2>5, <3>1, TwoFields
      <4> QED
        BY <2>1, <2>2, <2>3, <4>1
    <3>2. CASE up = FALSE
      BY <2>5, <3>2 DEF Fetch, TypeOK, Idle, Thread, ThreadPCs
    <3> QED
      BY <3>1, <3>2 DEF TypeOK
  <2>6. CASE Reread(t)
    <3>1. After(t, "check", threads[t].token, Cached(t), threads[t].forced)
      BY <2>6, TwoFields
    <3> QED
      BY <2>1, <2>2, <2>3, <3>1
  <2>7. CASE Refresh(t)
    <3>1. After(t, "fetch", threads[t].token, threads[t].held, TRUE)
      BY <2>7, TwoFields
    <3> QED
      BY <2>1, <2>2, <2>3, <3>1
  <2>8. CASE Store(t) \/ Accept(t) \/ Refuse(t)
    BY <2>1, <2>8 DEF Store, Accept, Refuse, TypeOK, Thread, ThreadPCs
  <2>9. CASE Return(t)
    BY <2>9 DEF Return, Idle, TypeOK, Thread, ThreadPCs
  <2>10. CASE \E k \in AllKeys : Receive(t, k)
    <3>1. PICK k \in AllKeys : Receive(t, k)
      BY <2>10
    <3>2. After(t, "lookup", k, threads[t].held, threads[t].forced)
      BY <3>1, TwoFields
    <3> QED
      BY <2>1, <2>2, <2>3, <3>2
  <2> QED
    BY <2>4, <2>5, <2>6, <2>7, <2>8, <2>9, <2>10 DEF Verify
<1>2. cache' \in [Services -> AllKeys \cup {None}]
  <2>1. CASE Store(t)
    BY <2>1 DEF Store, TypeOK, Thread
  <2>2. CASE ~Store(t)
    BY <2>2 DEF Verify, Lookup, Fetch, Reread, Accept, Refresh, Refuse, Return,
       Receive, TypeOK
  <2> QED
    BY <2>1, <2>2
<1> QED
  BY <1>1, <1>2, OwnSteps DEF TypeOK

\* Every step of a thread keeps what is known of the keys.
LEMMA VerifyInv ==
  ASSUME IInv, TypeOK', NEW t \in Threads,
         Verify(t) \/ \E k \in AllKeys : Receive(t, k)
  PROVE  NothingNewer' /\ \A u \in Threads : ThreadInv(u)'
<1>1. /\ \A u \in Threads : u # t => threads'[u] = threads[u]
      /\ key' = key
      /\ \A s \in Services : cache'[s] = cache[s] \/ (Store(t) /\ s = ServiceOf[t])
  BY OwnSteps DEF IInv
<1>2. ASSUME NEW u \in Threads, u # t
      PROVE  ThreadInv(u)'
  <2>1. Alone(ServiceOf[u]) => cache'[ServiceOf[u]] = cache[ServiceOf[u]]
    BY <1>1, <1>2, ServicesAssumption DEF Alone
  <2> QED
    BY <1>1, <1>2, <2>1 DEF IInv, ThreadInv, Cached, Alone
<1> SUFFICES NothingNewer' /\ ThreadInv(t)'
  BY <1>2
<1>3. /\ ServiceOf[t] \in Services
      /\ threads[t] \in Thread /\ threads'[t] \in Thread
      /\ key \in Nat /\ Cached(t) \in Nat \cup {None} /\ None \notin Nat
      /\ \A s \in Services : cache[s] \in Nat \cup {None}
      /\ threads[t].token \in Nat \cup {None} /\ threads[t].held \in Nat \cup {None}
  BY ServicesAssumption DEF IInv, TypeOK, Thread, AllKeys, Cached
<1> USE DEF NothingNewer, ThreadInv, HasToken, HasKey, IInv
<1>4. CASE Store(t)
  <2>1. /\ threads'[t] = [threads[t] EXCEPT !.pc = "reread"]
        /\ cache'[ServiceOf[t]] = threads[t].held
    BY <1>3, <1>4 DEF Store, TypeOK
  <2> QED
    BY <1>1, <1>3, <1>4, <2>1 DEF Store, Cached, Thread
<1>5. CASE ~Store(t)
  <2>1. cache' = cache
    BY <1>5 DEF Verify, Lookup, Fetch, Reread, Accept, Refresh, Refuse, Return,
       Receive
  <2>2. CASE Lookup(t) \/ Reread(t)
    <3>1. CASE Lookup(t) /\ Cached(t) = None
      <4>1. threads'[t] = [threads[t] EXCEPT !.pc = "fetch"]
        BY <3>1 DEF Lookup, TypeOK
      <4> QED
        BY <1>1, <1>3, <2>1, <3>1, <4>1 DEF Lookup, Cached, Thread
    <3>2. CASE Lookup(t) /\ Cached(t) # None
      <4>1. threads[t].pc = "lookup" /\ ~threads[t].forced
        BY <3>2 DEF Lookup
      <4>2. After(t, "check", threads[t].token, Cached(t), threads[t].forced)
        BY <3>2, TwoFields
      <4> QED
        BY <1>1, <1>3, <2>1, <3>2, <4>1, <4>2 DEF Cached, Thread, After
    <3>3. CASE Reread(t)
      <4>1. threads[t].pc = "reread"
        BY <3>3 DEF Reread
      <4>2. After(t, "check", threads[t].token, Cached(t), threads[t].forced)
        BY <3>3, TwoFields
      <4> QED
        BY <1>1, <1>3, <2>1, <4>1, <4>2 DEF Cached, Thread, After
    <3> QED
      BY <2>2, <3>1, <3>2, <3>3
  <2>3. CASE Fetch(t)
    <3>1. CASE up = TRUE
      <4>1. threads[t].pc = "fetch"
        BY <2>3 DEF Fetch
      <4>2. After(t, "store", threads[t].token, key, threads[t].forced)
        BY <2>3, <3>1, TwoFields
      <4> QED
        BY <1>1, <1>3, <2>1, <4>1, <4>2 DEF Cached, Thread, After
    <3>2. CASE up = FALSE
      BY <1>1, <1>3, <2>1, <2>3, <3>2 DEF Fetch, Cached, Idle, TypeOK
    <3> QED
      BY <3>1, <3>2 DEF TypeOK
  <2>4. CASE Refresh(t)
    <3>1. threads[t].pc = "check"
      BY <2>4 DEF Refresh
    <3>2. After(t, "fetch", threads[t].token, threads[t].held, TRUE)
      BY <2>4, TwoFields
    <3> QED
      BY <1>1, <1>3, <2>1, <3>1, <3>2 DEF Cached, Thread, After
  <2>5. CASE Accept(t) \/ Refuse(t)
    <3>1. /\ threads[t].pc = "check"
          /\ \/ threads'[t] = [threads[t] EXCEPT !.pc = "accepted"]
             \/ /\ threads'[t] = [threads[t] EXCEPT !.pc = "refused"]
                /\ ~Fits(t) /\ threads[t].forced
      BY <2>5 DEF Accept, Refuse, TypeOK
    <3> QED
      BY <1>1, <1>3, <2>1, <3>1 DEF Fits, Cached, Thread
  <2>6. CASE Return(t)
    BY <1>1, <1>3, <2>1, <2>6 DEF Return, Idle, Cached, TypeOK
  <2>7. CASE \E k \in AllKeys : Receive(t, k)
    <3>1. PICK k \in AllKeys : Receive(t, k)
      BY <2>7
    <3>2. k <= key /\ k \in Nat /\ threads[t].pc = "idle"
      BY <3>1 DEF Receive, AllKeys
    <3>3. After(t, "lookup", k, threads[t].held, threads[t].forced)
      BY <3>1, TwoFields
    <3> QED
      BY <1>1, <1>3, <2>1, <3>2, <3>3 DEF Cached, Thread, After
  <2> QED
    BY <1>5, <2>2, <2>3, <2>4, <2>5, <2>6, <2>7 DEF Verify
<1> QED
  BY <1>4, <1>5

\* A start or a stop of the broker changes no copy and makes every key older.
LEMMA BrokerStep ==
  ASSUME IInv, Start \/ Stop
  PROVE  IInv'
<1>1. key \in Nat /\ key <= MaxKey /\ MaxKey \in Nat /\ None \notin Nat
  BY ServicesAssumption DEF IInv, TypeOK, AllKeys
<1>2. /\ key' \in Nat /\ key' <= MaxKey /\ key' >= key
      /\ up' \in BOOLEAN /\ (~up' => key' < MaxKey)
  <2>1. CASE Stop
    <3>1. key < MaxKey /\ up' = FALSE /\ key' = key
      BY <2>1 DEF Stop
    <3>2. key' \in Nat /\ key' <= MaxKey /\ key' >= key /\ key' < MaxKey
      BY <1>1, <3>1
    <3> QED
      BY <3>1, <3>2, Zenon
  <2>2. CASE Start
    BY <1>1, <2>2 DEF Start, IInv
  <2> QED
    BY <2>1, <2>2
<1>3. UNCHANGED <<cache, threads>>
  BY DEF Start, Stop
<1>4. TypeOK'
  BY <1>2, <1>3 DEF IInv, TypeOK, AllKeys
<1>5. NothingNewer'
  <2>1. /\ \A s \in Services : cache[s] \in Nat \cup {None}
        /\ \A t \in Threads : /\ threads[t].token \in Nat \cup {None}
                              /\ threads[t].held \in Nat \cup {None}
    BY DEF IInv, TypeOK, Thread, AllKeys
  <2> QED
    BY <1>1, <1>2, <1>3, <2>1 DEF IInv, NothingNewer
<1>6. ASSUME NEW t \in Threads
      PROVE  ThreadInv(t)'
  <2>1. threads[t].token \in Nat \cup {None} /\ ThreadInv(t)
    BY DEF IInv, TypeOK, Thread, AllKeys
  <2> QED
    BY <1>1, <1>2, <1>3, <2>1 DEF ThreadInv, Cached, Alone, HasToken
<1> QED
  BY <1>2, <1>4, <1>5, <1>6 DEF IInv

\* Every step keeps the invariant.
LEMMA NextIInv == IInv /\ [Next]_vars => IInv'
<1> SUFFICES ASSUME IInv, [Next]_vars
             PROVE  IInv'
  OBVIOUS
<1>1. CASE Start \/ Stop
  BY <1>1, BrokerStep
<1>2. ASSUME NEW t \in Threads, Verify(t) \/ \E k \in AllKeys : Receive(t, k)
      PROVE  IInv'
  <2>1. TypeOK
    BY DEF IInv
  <2>2. TypeOK'
    BY <1>2, <2>1, VerifyType
  <2> QED
    BY <1>2, <2>1, <2>2, VerifyInv, OwnSteps DEF IInv
<1>3. CASE UNCHANGED vars
  BY <1>3 DEF vars, IInv, TypeOK, NothingNewer, ThreadInv, Cached, Alone
<1> QED
  BY <1>1, <1>2, <1>3 DEF Next

\* What is known of the copies and of the keys in the hands of threads holds in
\* every state of every instance.
THEOREM Inductive == Spec => []IInv
  BY InitIInv, NextIInv, PTL DEF Spec

\* The types are kept.
THEOREM TypeCorrect == Spec => []TypeOK
  BY Inductive, PTL DEF IInv

\* A service that verifies on one thread refuses only tokens of older keys
\* (decode_token, security.py:91-101).
THEOREM NoFreshTokenRefused == Spec => []RefusesOnlyOldTokens
<1>1. IInv => RefusesOnlyOldTokens
  BY DEF IInv, ThreadInv, RefusesOnlyOldTokens
<1> QED
  BY <1>1, Inductive, PTL

\* The copy of such a service is only replaced by a newer one
\* (_fetch_verification_key, security.py:22-27).
THEOREM CopiesOnlyGetNewer == Spec => NeverGoesBack
<1>1. ASSUME IInv, [Next]_vars, NEW s \in Services, Alone(s), cache[s] # None
      PROVE  cache'[s] # None /\ cache'[s] >= cache[s]
  <2>1. cache[s] \in Nat
    BY <1>1, ServicesAssumption DEF IInv, TypeOK, AllKeys
  <2>2. CASE cache'[s] = cache[s]
    BY <1>1, <2>1, <2>2
  <2>3. ASSUME NEW t \in Threads, Store(t), s = ServiceOf[t]
        PROVE  cache'[s] # None /\ cache'[s] >= cache[s]
    <3>1. cache'[s] = threads[t].held /\ threads[t].pc = "store"
      BY <1>1, <2>3 DEF Store, IInv, TypeOK
    <3> QED
      BY <1>1, <2>3, <3>1 DEF IInv, ThreadInv, Cached
  <2>4. cache'[s] = cache[s] \/ \E t \in Threads : Store(t) /\ s = ServiceOf[t]
    <3>1. CASE Start \/ Stop \/ UNCHANGED vars
      BY <3>1 DEF Start, Stop, vars
    <3>2. ASSUME NEW t \in Threads, Verify(t) \/ \E k \in AllKeys : Receive(t, k)
          PROVE  cache'[s] = cache[s] \/ (Store(t) /\ s = ServiceOf[t])
      BY <1>1, <3>2, OwnSteps DEF IInv
    <3> QED
      BY <1>1, <3>1, <3>2 DEF Next
  <2> QED
    BY <2>2, <2>3, <2>4
<1>2. IInv /\ [Next]_vars =>
        [\A s \in Services : Alone(s) /\ cache[s] # None =>
           cache'[s] # None /\ cache'[s] >= cache[s]]_vars
  BY <1>1
<1> QED
  BY <1>2, Inductive, PTL DEF Spec, NeverGoesBack
=============================================================================
