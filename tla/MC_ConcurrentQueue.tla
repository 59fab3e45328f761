-------------------------- MODULE MC_ConcurrentQueue --------------------------
(***************************************************************************)
(* Instances of ConcurrentQueue for TLC: three consumers share one stop    *)
(* source, or two have one each.                                           *)
(***************************************************************************)
EXTENDS ConcurrentQueue

CONSTANTS c1, c2, c3, t1, t2

TwoConsumers == {c1, c2}
ThreeConsumers == {c1, c2, c3}

OneToken == {t1}
TwoTokens == {t1, t2}

\* All consumers pass tokens of one source.
SharedToken == [c \in Consumers |-> t1]

\* Each consumer is a std::jthread and passes its own token.
OwnToken == [c \in Consumers |-> IF c = c1 THEN t1 ELSE t2]
=============================================================================
