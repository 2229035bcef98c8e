------------------------------ MODULE MCConsole ------------------------------
(***************************************************************************)
(* Two secrets, of which one can still be created; one of the two patterns *)
(* lets "a" be published.  s1 and s2 share a host, the URL of s4 has none. *)
(***************************************************************************)
EXTENDS Console, TLC

CONSTANTS k1, k2, s1, s2, s3, s4, t1, all, r1, h1, h2

AnyOne == <<"_">>
StartsWithB == <<"b", "*">>

ConsoleHost == [s \in Subs |-> IF s = s3 THEN "b:80" ELSE IF s = s4 THEN "" ELSE "a:80"]
SomeChoices == {<<s4, s1>>, <<s1, s2, s3>>}
OneSubject == {<<"a">>}
OnePattern == {AnyOne}
TwoPatterns == {AnyOne, StartsWithB}

Alike == Permutations(Handlers)

\* The two definitions agree on every pattern of up to four characters and every subject
\* of up to four letters.
StringsOver(S) == UNION {[1..n -> S] : n \in 0..4}

ASSUME AgreementAssumption ==
    \A p \in StringsOver(Characters), v \in StringsOver({"a", "b"}) :
        MatchLike(p, v) <=> InLanguage(v, p)
=============================================================================
