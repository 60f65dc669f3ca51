---------------------------- MODULE FillOnceStore ----------------------------
(***************************************************************************)
(* What the engine promises its callers, with no locks, flights, waiting   *)
(* or program points: a memo of the encoder that answers each row in one   *)
(* atomic step.  It admits a vector for a text it does not have while it   *)
(* has fewer than Capacity, declines once it is full, never evicts, and    *)
(* forgets everything only when it is cleared.  SingleFlight implements it *)
(* (the crate contract, lib.rs:7-27, and the module contract of cache.rs). *)
(***************************************************************************)
EXTENDS Naturals, FiniteSets

CONSTANTS Threads, Texts, Encoder, Failure, None, Capacity

VARIABLES
  store,                \* text -> vector, a function on the texts admitted
  asked,                \* asked[t]: the text of the row t waits for, or None
  answer,               \* answer[t]: what t's last row was answered, or None
  hits,                 \* rows answered from the store
  declined              \* rows the full store turned away

vars == <<store, asked, answer, hits, declined>>

Init ==
  /\ store = [x \in {} |-> x]
  /\ asked = [t \in Threads |-> None]
  /\ answer = [t \in Threads |-> None]
  /\ hits = 0
  /\ declined = 0

Ask(t, x) ==
  /\ asked[t] = None
  /\ asked' = [asked EXCEPT ![t] = x]
  /\ answer' = [answer EXCEPT ![t] = None]
  /\ UNCHANGED <<store, hits, declined>>

\* The texts no vector is kept for.
Missing == Texts \ DOMAIN store

\* The row t waits for is answered a.
Answer(t, a) ==
  /\ asked' = [asked EXCEPT ![t] = None]
  /\ answer' = [answer EXCEPT ![t] = a]

AnswerFromStore(t) ==
  /\ asked[t] \in DOMAIN store
  /\ Answer(t, store[asked[t]])
  /\ hits' = hits + 1
  /\ UNCHANGED <<store, declined>>

\* The first caller of a text pays for the encode and leaves the vector behind.
AnswerAndAdmit(t) ==
  /\ asked[t] \in Missing
  /\ Cardinality(DOMAIN store) < Capacity
  /\ Encoder[asked[t]] # Failure
  /\ Answer(t, Encoder[asked[t]])
  /\ store' = [x \in DOMAIN store \cup {asked[t]} |-> Encoder[x]]
  /\ UNCHANGED <<hits, declined>>

\* A full store is bypassed, whether or not the encode then succeeds.
AnswerDeclined(t) ==
  /\ asked[t] \in Missing
  /\ Cardinality(DOMAIN store) >= Capacity
  /\ Answer(t, Encoder[asked[t]])
  /\ declined' = declined + 1
  /\ UNCHANGED <<store, hits>>

\* A failed encode is reported to its own caller and leaves no trace.
AnswerFailed(t) ==
  /\ asked[t] \in Missing
  /\ Encoder[asked[t]] = Failure
  /\ Answer(t, Failure)
  /\ UNCHANGED <<store, hits, declined>>

\* embed_uncached does not touch the store.
AnswerUncached(t, x) ==
  /\ asked[t] = None
  /\ answer' = [answer EXCEPT ![t] = Encoder[x]]
  /\ UNCHANGED <<store, asked, hits, declined>>

ClearAll ==
  /\ store' = [x \in {} |-> x]
  /\ hits' = 0
  /\ declined' = 0
  /\ UNCHANGED <<asked, answer>>

Next ==
  \/ \E t \in Threads, x \in Texts : Ask(t, x) \/ AnswerUncached(t, x)
  \/ \E t \in Threads :
       \/ AnswerFromStore(t)
       \/ AnswerAndAdmit(t)
       \/ AnswerDeclined(t)
       \/ AnswerFailed(t)
  \/ ClearAll

Spec == Init /\ [][Next]_vars

=============================================================================
