--------------------------- MODULE VerificationKeys ---------------------------
(***************************************************************************)
(* How the services of the local demo verify tokens (security.py): with a   *)
(* copy of the broker's public key that they fetch when first needed and    *)
(* once more when a signature does not fit.  The broker's key dies with its *)
(* process (LocalSoftwareBackend, signing.py), so every start of the broker *)
(* is a rotation.                                                          *)
(*                                                                         *)
(* The services with `async` handlers verify on one thread; those with      *)
(* plain ones (the identity provider, the registry) on several, which share *)
(* the copy.  Keys are numbered in the order of the broker's starts.        *)
(* Tokens are valid but for their key, and a broker that is up answers.     *)
(* When it is down the verification has "failed": no verdict on the token,  *)
(* although most handlers then answer 401 as well.                         *)
(***************************************************************************)
EXTENDS Integers

CONSTANTS
  Services,
  Threads,
  ServiceOf,   \* thread |-> its service
  MaxKey,      \* bound: starts of the broker after the first
  None

ASSUME ServicesAssumption ==
  /\ ServiceOf \in [Threads -> Services]
  /\ MaxKey \in Nat
  /\ None \notin Nat

VARIABLES
  up,       \* does the broker run?
  key,      \* the key of the broker's latest process
  cache,    \* _verification_key of each service
  threads

vars == <<up, key, cache, threads>>

AllKeys == 0 .. MaxKey

\* token: the key of the token that is verified; held: the key the thread has in
\* its hands (the broker's answer, or the one it verifies with); forced: is this
\* the second attempt?
ThreadPCs == {"idle", "lookup", "fetch", "store", "reread", "check", "accepted",
              "refused", "failed"}
Thread == [pc : ThreadPCs, token : AllKeys \cup {None}, held : AllKeys \cup {None},
           forced : BOOLEAN]
Idle == [pc |-> "idle", token |-> None, held |-> None, forced |-> FALSE]

Init ==
  /\ up = TRUE
  /\ key = 0
  /\ cache = [s \in Services |-> None]
  /\ threads = [t \in Threads |-> Idle]

Stop ==
  /\ up /\ key < MaxKey
  /\ up' = FALSE
  /\ UNCHANGED <<key, cache, threads>>

\* The broker starts again, with a new key.
Start ==
  /\ ~up
  /\ up' = TRUE
  /\ key' = key + 1
  /\ UNCHANGED <<cache, threads>>

\* A request with a token of any key there has been.
Receive(t, k) ==
  /\ threads[t].pc = "idle"
  /\ k <= key
  /\ threads' = [threads EXCEPT ![t].pc = "lookup", ![t].token = k]
  /\ UNCHANGED <<up, key, cache>>

Cached(t) == cache[ServiceOf[t]]

\* _fetch_verification_key()
Lookup(t) ==
  /\ threads[t].pc = "lookup"
  /\ threads' = IF Cached(t) = None
                THEN [threads EXCEPT ![t].pc = "fetch"]
                ELSE [threads EXCEPT ![t].pc = "check", ![t].held = Cached(t)]
  /\ UNCHANGED <<up, key, cache>>

\* GET /jwks: the key as it is when the broker answers, or an error.
Fetch(t) ==
  /\ threads[t].pc = "fetch"
  /\ threads' = IF up
                THEN [threads EXCEPT ![t].pc = "store", ![t].held = key]
                ELSE [threads EXCEPT ![t] = [Idle EXCEPT !.pc = "failed"]]
  /\ UNCHANGED <<up, key, cache>>

\* Mutant of Store: the answer is used but not kept.
UseOnly(t) ==
  /\ threads[t].pc = "store"
  /\ threads' = [threads EXCEPT ![t].pc = "check"]
  /\ UNCHANGED <<up, key, cache>>

\* The answer is put in the dictionary, whatever is there by now ...
Store(t) ==
  /\ threads[t].pc = "store"
  /\ cache' = [cache EXCEPT ![ServiceOf[t]] = threads[t].held]
  /\ threads' = [threads EXCEPT ![t].pc = "reread"]
  /\ UNCHANGED <<up, key>>

\* ... and what is there is returned.
Reread(t) ==
  /\ threads[t].pc = "reread"
  /\ threads' = [threads EXCEPT ![t].pc = "check", ![t].held = Cached(t)]
  /\ UNCHANGED <<up, key, cache>>

Fits(t) == threads[t].token = threads[t].held

Accept(t) ==
  /\ threads[t].pc = "check"
  /\ Fits(t)
  /\ threads' = [threads EXCEPT ![t].pc = "accepted"]
  /\ UNCHANGED <<up, key, cache>>

\* Mutant of Refresh: the copy is good for ever.
NoRefresh(t) ==
  /\ threads[t].pc = "check"
  /\ ~Fits(t) /\ ~threads[t].forced
  /\ threads' = [threads EXCEPT ![t].pc = "refused"]
  /\ UNCHANGED <<up, key, cache>>

\* InvalidSignatureError at the first attempt: fetch the key again.
Refresh(t) ==
  /\ threads[t].pc = "check"
  /\ ~Fits(t) /\ ~threads[t].forced
  /\ threads' = [threads EXCEPT ![t].pc = "fetch", ![t].forced = TRUE]
  /\ UNCHANGED <<up, key, cache>>

\* Mutant of Refuse: the key is dropped, to be fetched for the next request.
RefuseAndForget(t) ==
  /\ threads[t].pc = "check"
  /\ ~Fits(t) /\ threads[t].forced
  /\ threads' = [threads EXCEPT ![t].pc = "refused"]
  /\ cache' = [cache EXCEPT ![ServiceOf[t]] = None]
  /\ UNCHANGED <<up, key>>

Refuse(t) ==
  /\ threads[t].pc = "check"
  /\ ~Fits(t) /\ threads[t].forced
  /\ threads' = [threads EXCEPT ![t].pc = "refused"]
  /\ UNCHANGED <<up, key, cache>>

Return(t) ==
  /\ threads[t].pc \in {"accepted", "refused", "failed"}
  /\ threads' = [threads EXCEPT ![t] = Idle]
  /\ UNCHANGED <<up, key, cache>>

Verify(t) ==
  \/ Lookup(t) \/ Fetch(t) \/ Store(t) \/ Reread(t)
  \/ Accept(t) \/ Refresh(t) \/ Refuse(t) \/ Return(t)

Next ==
  \/ Stop \/ Start
  \/ \E t \in Threads : Verify(t) \/ \E k \in AllKeys : Receive(t, k)

Spec == Init /\ [][Next]_vars

\* A verification that has begun goes on, and a broker that is down is started
\* again; nobody need present a token.
FairSpec == Spec /\ WF_vars(Start) /\ \A t \in Threads : WF_vars(Verify(t))
-----------------------------------------------------------------------------

TypeOK ==
  /\ up \in BOOLEAN
  /\ key \in AllKeys
  /\ cache \in [Services -> AllKeys \cup {None}]
  /\ threads \in [Threads -> Thread]

Alone(s) == \A t, u \in Threads : ServiceOf[t] = s /\ ServiceOf[u] = s => t = u

\* A service that verifies on one thread refuses no token that carries the key
\* the broker signs with, however often the broker has been restarted and
\* whatever other services hold: a delegation that one service on a path has
\* accepted is not lost to the stale copy of the next (decode_token,
\* security.py:91-101).
RefusesOnlyOldTokens ==
  \A t \in Threads :
    threads[t].pc = "refused" /\ Alone(ServiceOf[t]) => threads[t].token < key

\* Nor does its copy ever go back to an older key, so that a token it has once
\* refused for its key stays refused; on several threads an answer that is
\* stored late may undo a newer one (security.py:22-27).
NeverGoesBack ==
  [][\A s \in Services :
       Alone(s) /\ cache[s] # None => cache'[s] # None /\ cache'[s] >= cache[s]]_vars

\* On any number of threads: a service that keeps being shown tokens of the
\* latest key ends up with that key for good, whatever old tokens it is shown
\* in between and whatever late answers are still to be stored.
HealsAfterRotation ==
  \A s \in Services :
    []<>(\E t \in Threads : ServiceOf[t] = s /\ threads[t].token = key)
      => <>[](cache[s] = key)
=============================================================================
