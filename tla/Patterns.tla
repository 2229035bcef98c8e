------------------------------ MODULE Patterns ------------------------------
(***************************************************************************)
(* MatchLikePattern of app/secrets.go, which decides which subjects a      *)
(* secret may publish and which subscriptions an event matches.  Strings   *)
(* are sequences of characters; * stands for any sequence of them, _ for   *)
(* exactly one.  The code compares bytes: for subjects outside ASCII the   *)
(* characters here are bytes.                                              *)
(***************************************************************************)
EXTENDS Naturals, Sequences, FiniteSets

CharMatches(c, d) == c \in {"_", d}

\* The position after the run of * that begins at i.
SkipStars(p, i) ==
    CHOOSE k \in i..Len(p) + 1 :
        /\ \A n \in i..k - 1 : p[n] = "*"
        /\ k <= Len(p) => p[k] # "*"

\* matchLike: the positions of v from which on the pattern from i on matches it, given
\* those of the later i.
MatchesFrom(p, v, i, rest) ==
    IF i > Len(p) THEN {Len(v) + 1}
    ELSE IF p[i] = "*"
         THEN {j \in 1..Len(v) + 1 :
                  \/ SkipStars(p, i) > Len(p)
                  \/ \E n \in j..Len(v) + 1 : n \in rest[SkipStars(p, i)]}
         ELSE {j \in 1..Len(v) : CharMatches(p[i], v[j]) /\ j + 1 \in rest[i + 1]}

MatchLike(p, v) ==
    LET rest[i \in 1..Len(p) + 1] == MatchesFrom(p, v, i, rest) IN 1 \in rest[1]

-----------------------------------------------------------------------------
\* What is meant: v can be cut into as many consecutive pieces as p has characters,
\* the piece of a * arbitrary, that of a _ one character, that of any other
\* character itself.
InLanguage(v, p) ==
    \E cut \in [0..Len(p) -> 0..Len(v)] :
        /\ cut[0] = 0 /\ cut[Len(p)] = Len(v)
        /\ \A i \in 1..Len(p) :
              \/ p[i] = "*" /\ cut[i] >= cut[i - 1]
              \/ /\ cut[i] = cut[i - 1] + 1
                 /\ p[i] \in {"_", v[cut[i]]}
=============================================================================
