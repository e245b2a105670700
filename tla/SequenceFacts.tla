--------------------------- MODULE SequenceFacts ---------------------------
(***************************************************************************)
(* What the proofs need to know of finite sequences: pipelines of requests,*)
(* streams of events, lists of symbols.                                    *)
(***************************************************************************)
EXTENDS Naturals, Sequences, TLAPS

\* The empty sequence is a sequence over every set.
LEMMA EmptySequence ==
  ASSUME NEW S
  PROVE  <<>> \in Seq(S)
OBVIOUS

\* A sequence over a set is one over every larger set.
LEMMA WiderSequence ==
  ASSUME NEW S, NEW T, S \subseteq T, NEW q \in Seq(S)
  PROVE  q \in Seq(T)
OBVIOUS

\* What is left of a sequence when its head is taken: the pipelines, streams and
\* queues of the gateway are all read that way.
LEMMA TailElements ==
  ASSUME NEW S, NEW q \in Seq(S), q # <<>>
  PROVE  /\ Head(q) \in S /\ Tail(q) \in Seq(S) /\ Len(Tail(q)) = Len(q) - 1
         /\ \A j \in DOMAIN Tail(q) : j \in Nat /\ j + 1 \in DOMAIN q /\ Tail(q)[j] = q[j + 1]
OBVIOUS

\* One element is replaced, as an answer does on a pipeline.
LEMMA ReplacedElement ==
  ASSUME NEW S, NEW q \in Seq(S), NEW j \in DOMAIN q, NEW e \in S
  PROVE  /\ [q EXCEPT ![j] = e] \in Seq(S) /\ Len([q EXCEPT ![j] = e]) = Len(q)
         /\ DOMAIN [q EXCEPT ![j] = e] = DOMAIN q
         /\ \A h \in DOMAIN q : [q EXCEPT ![j] = e][h] = IF h = j THEN e ELSE q[h]
OBVIOUS

\* Each element of a concatenation is one of the first or of the second.
LEMMA JoinedElements ==
  ASSUME NEW S, NEW q \in Seq(S), NEW r \in Seq(S)
  PROVE  /\ q \o r \in Seq(S) /\ Len(q \o r) = Len(q) + Len(r)
         /\ \A j \in DOMAIN (q \o r) :
              \/ j \in DOMAIN q /\ (q \o r)[j] = q[j]
              \/ j - Len(q) \in DOMAIN r /\ j > Len(q) /\ (q \o r)[j] = r[j - Len(q)]
OBVIOUS

\* A function on the indices of a sequence is a sequence of the same length.
LEMMA MappedElements ==
  ASSUME NEW S, NEW q \in Seq(S), NEW f \in [DOMAIN q -> S]
  PROVE  f \in Seq(S) /\ Len(f) = Len(q)
OBVIOUS
=============================================================================
