----------------------------- MODULE EnvProofs -----------------------------
(***************************************************************************)
(* Proofs about utils/env.ts for strings of every length: formatBase      *)
(* returns the shortest slash-delimited string containing its argument,    *)
(* and the evaluated constants are well typed.                             *)
(***************************************************************************)
EXTENDS Env, SequenceTheorems, TLAPS

\* Characters formatBase adds to a value: a leading slash unless there is
\* one, and a trailing slash unless there is one.
Added(v) == (IF StartsWithSlash(v) THEN 0 ELSE 1) + (IF EndsWithSlash(v) THEN 0 ELSE 1)

\* The environment as the build sees it: UI_SHA is a SHA, unset or empty,
\* and the path variables are strings or unset.
EnvShape ==
    /\ env["UI_SHA"] \in ShaValues \cup {Undefined, <<>>}
    /\ \A n \in EnvNames \ {"UI_SHA"} : env[n] \in EnvStrings \cup {Undefined}

\* The inductive invariant.
EInv == TypeOK /\ EnvShape /\ BasePathsMinimal

(***************************************************************************)
(* Lemmas about strings.                                                   *)
(***************************************************************************)

\* The strings up to n characters are the character sequences that long.
LEMMA StringsUpToSeq ==
    ASSUME NEW n \in Nat, NEW s
    PROVE  s \in StringsUpTo(n) <=> s \in Seq(Chars) /\ Len(s) <= n
  <1>1. ASSUME s \in StringsUpTo(n) PROVE s \in Seq(Chars) /\ Len(s) <= n
    <2>1. PICK k \in 0..n : s \in [1..k -> Chars]
      BY <1>1 DEF StringsUpTo
    <2>2. QED
      BY <2>1
  <1>2. ASSUME s \in Seq(Chars), Len(s) <= n PROVE s \in StringsUpTo(n)
    <2>1. Len(s) \in 0..n /\ s \in [1..Len(s) -> Chars]
      BY <1>2
    <2>2. QED
      BY <2>1 DEF StringsUpTo
  <1>3. QED
    BY <1>1, <1>2

\* formatBase on a non-empty value: a character sequence, longer by the
\* slashes it adds, that starts and ends with a slash and holds the value
\* after its leading slash (or from its start when it had one).
LEMMA FormatBaseShape ==
    ASSUME NEW v \in Seq(Chars), Len(v) >= 1
    PROVE  /\ formatBase(v) \in Seq(Chars)
           /\ Len(formatBase(v)) = Len(v) + Added(v)
           /\ IsBasePath(formatBase(v))
           /\ Contains(formatBase(v), v)
  <1>1. CASE v = <<Slash>>
    <2>1. formatBase(v) = v /\ Len(v) = 1 /\ v[1] = Slash
      BY <1>1 DEF formatBase
    <2>2. Added(v) = 0 /\ IsBasePath(v)
      BY <2>1 DEF Added, StartsWithSlash, EndsWithSlash, IsBasePath
    <2>3. SubSeq(v, 0 + 1, 0 + Len(v)) = v
      BY <2>1
    <2>4. QED
      BY <2>1, <2>2, <2>3 DEF Contains
  <1>2. CASE v # <<Slash>>
    <2> DEFINE p == IF StartsWithSlash(v) THEN v ELSE <<Slash>> \o v
               i == IF StartsWithSlash(v) THEN 0 ELSE 1
    <2>1. /\ p \in Seq(Chars)
          /\ Len(p) = Len(v) + i
          /\ StartsWithSlash(p)
          /\ EndsWithSlash(p) = EndsWithSlash(v)
          /\ SubSeq(p, i + 1, i + Len(v)) = v
      <3>1. CASE StartsWithSlash(v)
        BY <3>1 DEF StartsWithSlash, EndsWithSlash
      <3>2. CASE ~StartsWithSlash(v)
        <4>1. <<Slash>> \in Seq(Chars)
          BY DEF Chars
        <4>2. /\ <<Slash>> \o v \in Seq(Chars)
              /\ Len(<<Slash>> \o v) = Len(v) + 1
              /\ \A j \in 1..Len(v) + 1 :
                    (<<Slash>> \o v)[j] = IF j <= 1 THEN Slash ELSE v[j - 1]
          BY <4>1, ConcatProperties
        <4>3. SubSeq(<<Slash>> \o v, 2, Len(v) + 1) = v
          BY <4>2, SubSeqProperties, SeqEqual
        <4>4. QED
          BY <3>2, <4>2, <4>3 DEF StartsWithSlash, EndsWithSlash
      <3>3. QED
        BY <3>1, <3>2
    <2>2. formatBase(v) = IF EndsWithSlash(p) THEN p ELSE Append(p, Slash)
      BY <1>2 DEF formatBase
    <2>0. i \in 0..1 /\ i \in 0..(Len(p) - Len(v))
      BY <2>1
    <2>3. CASE EndsWithSlash(v)
      <3>1. formatBase(v) = p
        BY <2>1, <2>2, <2>3
      <3>2. Len(p) = Len(v) + Added(v)
        BY <2>1, <2>3 DEF Added
      <3>3. IsBasePath(p)
        BY <2>1, <2>3 DEF IsBasePath
      <3>4. Contains(p, v)
        BY <2>0, <2>1 DEF Contains
      <3>5. QED
        BY <2>1, <3>1, <3>2, <3>3, <3>4
    <2>4. CASE ~EndsWithSlash(v)
      <3> DEFINE q == Append(p, Slash)
      <3>1. /\ q \in Seq(Chars) /\ Len(q) = Len(p) + 1
            /\ \A j \in 1..Len(p) : q[j] = p[j]
            /\ q[Len(q)] = Slash
        BY <2>1 DEF Chars
      <3>2. IsBasePath(q)
        BY <2>1, <3>1 DEF IsBasePath, StartsWithSlash, EndsWithSlash
      <3>3. SubSeq(q, i + 1, i + Len(v)) = v
        <4>1. i + 1 \in 1..Len(q) /\ i + Len(v) \in 1..Len(q) /\ i + Len(v) <= Len(p)
          BY <2>0, <2>1, <3>1
        <4>2. \A j \in i + 1..i + Len(v) : q[j] \in Chars
          BY <3>1, <4>1, ElementOfSeq
        <4>3. /\ SubSeq(q, i + 1, i + Len(v)) \in Seq(Chars)
              /\ Len(SubSeq(q, i + 1, i + Len(v))) = Len(v)
              /\ \A j \in 1..Len(v) : SubSeq(q, i + 1, i + Len(v))[j] = q[i + j]
          BY <4>1, <4>2, <3>1, SubSeqProperties
        <4>4. \A j \in i + 1..i + Len(v) : p[j] \in Chars
          BY <2>1, <4>1, ElementOfSeq
        <4>5. \A j \in 1..Len(v) : SubSeq(p, i + 1, i + Len(v))[j] = p[i + j]
          BY <4>1, <4>4, <2>1, SubSeqProperties
        <4>6. \A j \in 1..Len(v) : q[i + j] = v[j]
          BY <2>1, <3>1, <4>1, <4>5
        <4>7. QED
          BY <4>3, <4>6, SeqEqual
      <3>4. QED
        <4>1. formatBase(v) = q
          BY <2>1, <2>2, <2>4
        <4>2. Len(q) = Len(v) + Added(v)
          BY <2>1, <2>4, <3>1 DEF Added
        <4>3. Contains(q, v)
          <5>1. i \in 0..(Len(q) - Len(v))
            BY <2>0, <2>1, <3>1
          <5>2. QED
            BY <5>1, <3>3 DEF Contains
        <4>4. QED
          BY <3>1, <3>2, <4>1, <4>2, <4>3
    <2>5. QED
      BY <2>3, <2>4
  <1>3. QED
    BY <1>1, <1>2

\* Any string that starts and ends with a slash and contains v is at least
\* as long as v with the slashes v lacks: a value not starting with a
\* slash cannot sit at the start, nor one not ending with a slash at the end.
LEMMA BasePathLowerBound ==
    ASSUME NEW v \in Seq(Chars), Len(v) >= 1,
           NEW t \in Seq(Chars), IsBasePath(t), Contains(t, v)
    PROVE  Len(t) >= Len(v) + Added(v)
  <1>1. PICK j \in 0..(Len(t) - Len(v)) : SubSeq(t, j + 1, j + Len(v)) = v
    BY DEF Contains
  <1>2. j \in Nat /\ j + Len(v) <= Len(t) /\ Len(t) >= 1
    BY <1>1
  <1>3. t[j + 1] = v[1] /\ t[j + Len(v)] = v[Len(v)]
    <2>1. \A k \in j + 1..j + Len(v) : t[k] \in Chars
      BY <1>2, ElementOfSeq
    <2>2. \A k \in 1..Len(v) : SubSeq(t, j + 1, j + Len(v))[k] = t[j + k]
      BY <1>2, <2>1, SubSeqProperties
    <2>3. QED
      BY <1>1, <2>2
  <1>4. t[1] = Slash /\ t[Len(t)] = Slash
    BY DEF IsBasePath, StartsWithSlash, EndsWithSlash
  <1>5. ~StartsWithSlash(v) => j >= 1
    BY <1>2, <1>3, <1>4 DEF StartsWithSlash
  <1>6. ~EndsWithSlash(v) => j + Len(v) <= Len(t) - 1
    BY <1>2, <1>3, <1>4 DEF EndsWithSlash
  <1>7. QED
    BY <1>2, <1>5, <1>6 DEF Added

\* formatBase(v) is one of the shortest slash-delimited strings containing
\* v, the reference definition BasePathsOf, for every non-empty v.
LEMMA FormatBaseMinimal ==
    ASSUME NEW v \in Seq(Chars), Len(v) >= 1
    PROVE  formatBase(v) \in BasePathsOf(v)
  <1> DEFINE cands == {s \in StringsUpTo(Len(v) + 2) : IsBasePath(s) /\ Contains(s, v)}
  <1>1. Added(v) \in 0..2
    BY DEF Added
  <1>2. formatBase(v) \in cands
    BY <1>1, FormatBaseShape, StringsUpToSeq
  <1>3. ASSUME NEW t \in cands PROVE Len(formatBase(v)) <= Len(t)
    <2>1. t \in Seq(Chars) /\ IsBasePath(t) /\ Contains(t, v)
      BY StringsUpToSeq
    <2>2. QED
      BY <2>1, FormatBaseShape, BasePathLowerBound
  <1>4. QED
    BY <1>2, <1>3 DEF BasePathsOf

\* formatStatic adds at most one character to a string.
LEMMA FormatStaticType ==
    ASSUME NEW dir \in Seq(Chars)
    PROVE  formatStatic(dir) \in Seq(Chars) /\ Len(formatStatic(dir)) <= Len(dir) + 1
  <1>1. CASE dir = <<>>
    BY <1>1 DEF formatStatic
  <1>2. CASE dir # <<>>
    <2> DEFINE d == IF StartsWithSlash(dir) THEN Tail(dir) ELSE dir
    <2>1. d \in Seq(Chars) /\ Len(d) <= Len(dir)
      BY <1>2 DEF StartsWithSlash
    <2>2. Append(d, Slash) \in Seq(Chars) /\ Len(Append(d, Slash)) = Len(d) + 1
      BY <2>1 DEF Chars
    <2>3. formatStatic(dir) = IF EndsWithSlash(d) THEN d ELSE Append(d, Slash)
      BY <1>2 DEF formatStatic
    <2>4. QED
      BY <2>1, <2>2, <2>3
  <1>3. QED
    BY <1>1, <1>2

\* The value the build gives a base-path variable, defaulted to "/": a
\* non-empty string no longer than the variable or the default.
LEMMA BaseDefaultShape ==
    ASSUME NEW x \in EnvStrings \cup {Undefined}
    PROVE  /\ OrDefault(x, <<Slash>>) \in Seq(Chars)
           /\ Len(OrDefault(x, <<Slash>>)) >= 1
           /\ OrDefault(x, <<Slash>>) = <<Slash>> \/ Len(OrDefault(x, <<Slash>>)) <= MaxLen
  <1>1. <<Slash>> \in Seq(Chars)
    BY DEF Chars
  <1>2. x \in EnvStrings => x \in Seq(Chars) /\ Len(x) <= MaxLen
    BY EnvAssumption, StringsUpToSeq DEF EnvStrings
  <1>3. QED
    BY <1>1, <1>2 DEF OrDefault

\* formatBase of such a value fits in two more characters than MaxLen.
LEMMA BasePathType ==
    ASSUME NEW x \in EnvStrings \cup {Undefined}
    PROVE  formatBase(OrDefault(x, <<Slash>>)) \in StringsUpTo(MaxLen + 2)
  <1> DEFINE v == OrDefault(x, <<Slash>>)
  <1>1. v \in Seq(Chars) /\ Len(v) >= 1 /\ (v = <<Slash>> \/ Len(v) <= MaxLen)
    BY BaseDefaultShape
  <1> HIDE DEF v
  <1>2. formatBase(v) \in Seq(Chars) /\ Len(formatBase(v)) = Len(v) + Added(v)
    BY <1>1, FormatBaseShape
  <1>3. Added(v) \in 0..2 /\ (v = <<Slash>> => Added(v) = 0)
    BY DEF Added, StartsWithSlash, EndsWithSlash
  <1>4. Len(formatBase(v)) <= MaxLen + 2
    <2>1. CASE v = <<Slash>>
      <3>1. Len(v) = 1 /\ Added(v) = 0
        BY <2>1, <1>3
      <3>2. QED
        BY <1>2, <3>1, EnvAssumption
    <2>2. CASE Len(v) <= MaxLen
      BY <1>1, <1>2, <1>3, <2>2, EnvAssumption
    <2>3. QED
      BY <1>1, <2>1, <2>2
  <1>5. QED
    BY <1>2, <1>4, EnvAssumption, StringsUpToSeq DEF v

(***************************************************************************)
(* The evaluation of the module.                                           *)
(***************************************************************************)

LEMMA InitEInv == Init => EInv
  <1> SUFFICES ASSUME Init PROVE EInv
    OBVIOUS
  <1>1. <<>> \in EnvStrings
    <2>1. <<>> \in Seq(Chars) /\ Len(<<>>) <= MaxLen
      BY EnvAssumption
    <2>2. QED
      BY <2>1, EnvAssumption, StringsUpToSeq DEF EnvStrings
  <1>2. QED
    BY <1>1 DEF Init, EInv, TypeOK, EnvShape, BasePathsMinimal

LEMMA LoadEInv == EInv /\ Load => EInv'
  <1> SUFFICES ASSUME EInv, Load PROVE EInv'
    OBVIOUS
  <1>1. UNCHANGED <<env, git>>
    BY DEF Load
  <1>2. EnvShape'
    BY <1>1 DEF EInv, EnvShape
  <1>3. /\ env["BASE_PATH"] \in EnvStrings \cup {Undefined}
        /\ env["API_BASE_PATH"] \in EnvStrings \cup {Undefined}
        /\ env["STATIC_DIRECTORY"] \in EnvStrings \cup {Undefined}
    BY DEF EInv, EnvShape, EnvNames
  <1>4. BasePathsMinimal'
    <2>1. /\ formatBase(OrDefault(env["BASE_PATH"], <<Slash>>))
               \in BasePathsOf(OrDefault(env["BASE_PATH"], <<Slash>>))
          /\ formatBase(OrDefault(env["API_BASE_PATH"], <<Slash>>))
               \in BasePathsOf(OrDefault(env["API_BASE_PATH"], <<Slash>>))
      BY <1>3, BaseDefaultShape, FormatBaseMinimal
    <2>2. QED
      BY <1>1, <2>1 DEF Load, BasePathsMinimal
  <1>5. GitSha(env["UI_SHA"], git) \in ShaValues \cup {Unknown}
    BY DEF EInv, EnvShape, TypeOK, GitSha
  <1>6. formatStatic(OrDefault(env["STATIC_DIRECTORY"], <<>>)) \in StringsUpTo(MaxLen + 2)
    <2>1. OrDefault(env["STATIC_DIRECTORY"], <<>>) \in Seq(Chars)
          /\ Len(OrDefault(env["STATIC_DIRECTORY"], <<>>)) <= MaxLen
      BY <1>3, EnvAssumption, StringsUpToSeq DEF OrDefault, EnvStrings
    <2>2. QED
      BY <2>1, FormatStaticType, EnvAssumption, StringsUpToSeq
  <1>7. TypeOK'
    BY <1>1, <1>3, <1>5, <1>6, BasePathType DEF EInv, TypeOK, Load
  <1>8. QED
    BY <1>2, <1>4, <1>7 DEF EInv

LEMMA NextEInv == EInv /\ [Next]_vars => EInv'
  <1> SUFFICES ASSUME EInv, [Next]_vars PROVE EInv'
    OBVIOUS
  <1>1. CASE Next
    BY <1>1, LoadEInv DEF Next
  <1>2. CASE UNCHANGED vars
    BY <1>2 DEF vars, EInv, TypeOK, EnvShape, BasePathsMinimal
  <1>3. QED
    BY <1>1, <1>2

\* The constants env.ts exports are well typed: GIT_SHA is a SHA or
\* 'unknown', the three paths strings of at most two characters more than
\* the environment's values.
THEOREM EnvTypeCorrect == Spec => []TypeOK
  <1>1. EInv => TypeOK
    BY DEF EInv
  <1>2. QED
    BY InitEInv, NextEInv, <1>1, PTL DEF Spec

\* BasePathsMinimal for values of every length: once env.ts is evaluated,
\* BASE_PATH and API_BASE_PATH are each a shortest slash-delimited string
\* containing the configured value (or the default "/"), so formatBase
\* never doubles a slash and never leaves one out.
THEOREM BasePathsMinimalHolds == Spec => []BasePathsMinimal
  <1>1. EInv => BasePathsMinimal
    BY DEF EInv
  <1>2. QED
    BY InitEInv, NextEInv, <1>1, PTL DEF Spec

=============================================================================
