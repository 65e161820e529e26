-------------------------------- MODULE Env --------------------------------
(***************************************************************************)
(* utils/env.ts: the build-time constants.  Evaluating the module reads    *)
(* UI_SHA, STATIC_DIRECTORY, BASE_PATH and API_BASE_PATH from the          *)
(* environment, falls back on git for the SHA, and normalises the paths    *)
(* with formatStatic and formatBase.  A string is a sequence of            *)
(* characters over a small alphabet: the slash, which the functions test,  *)
(* and one other character standing for all the rest.                      *)
(***************************************************************************)
EXTENDS Naturals, Sequences

CONSTANTS
    MaxLen,      \* longest environment value considered
    Undefined,   \* an unset environment variable
    ShaValues,   \* values UI_SHA or git may give for the SHA
    GitFails,    \* execSync throws (no git, not a repository)
    Unknown,     \* the literal 'unknown'
    Unset        \* a constant before the module is evaluated

ASSUME EnvAssumption ==
    /\ MaxLen \in Nat
    /\ GitFails \notin ShaValues
    /\ Unknown \notin ShaValues

Slash == "/"
Other == "a"
Chars == {Slash, Other}

\* Strings up to length n (SeqOf of the community modules, written out).
StringsUpTo(n) == UNION {[1..k -> Chars] : k \in 0..n}

EnvStrings == StringsUpTo(MaxLen)

VARIABLES
    env,            \* process.env: the four variables read
    git,            \* what `git rev-parse` would print, or GitFails
    GIT_SHA,
    STATIC_DIRECTORY,
    BASE_PATH,
    API_BASE_PATH

vars == <<env, git, GIT_SHA, STATIC_DIRECTORY, BASE_PATH, API_BASE_PATH>>

EnvNames == {"UI_SHA", "STATIC_DIRECTORY", "BASE_PATH", "API_BASE_PATH"}

TypeOK ==
    /\ env \in [EnvNames -> EnvStrings \cup ShaValues \cup {Undefined}]
    /\ git \in ShaValues \cup {GitFails}
    /\ GIT_SHA \in ShaValues \cup {Unknown, Unset}
    /\ \A p \in {STATIC_DIRECTORY, BASE_PATH, API_BASE_PATH} :
          p \in StringsUpTo(MaxLen + 2) \cup {Unset}

\* `x || d`: an unset or empty variable gives the default.
OrDefault(x, d) == IF x \in {Undefined, <<>>} THEN d ELSE x

\* The last character; undefined (and so never a slash) for "".
EndsWithSlash(s) == Len(s) > 0 /\ s[Len(s)] = Slash
StartsWithSlash(s) == Len(s) > 0 /\ s[1] = Slash

\* formatStatic: "" is returned as is; otherwise one leading slash is
\* dropped and a trailing slash added when missing.
formatStatic(dir) ==
    IF dir = <<>> THEN dir
    ELSE LET d == IF StartsWithSlash(dir) THEN Tail(dir) ELSE dir
         IN IF EndsWithSlash(d) THEN d ELSE Append(d, Slash)

\* A formatBase that always prepends the slash.
formatBaseAlwaysPrefix(prefix) ==
    IF prefix = <<Slash>> THEN prefix
    ELSE LET p == <<Slash>> \o prefix
         IN IF EndsWithSlash(p) THEN p ELSE Append(p, Slash)

\* formatBase: "/" is returned as is; otherwise a leading and a trailing
\* slash are added where missing.
formatBase(prefix) ==
    IF prefix = <<Slash>> THEN prefix
    ELSE LET p == IF StartsWithSlash(prefix) THEN prefix ELSE <<Slash>> \o prefix
         IN IF EndsWithSlash(p) THEN p ELSE Append(p, Slash)

\* A GIT_SHA that tests UI_SHA with ?? instead of ||, keeping "".
GitShaNullish(uiSha, gitResult) ==
    IF uiSha # Undefined THEN uiSha
    ELSE IF gitResult = GitFails THEN Unknown ELSE gitResult

\* GIT_SHA: UI_SHA when set and non-empty, else git's output, else
\* 'unknown' when execSync throws.
GitSha(uiSha, gitResult) ==
    IF uiSha \notin {Undefined, <<>>} THEN uiSha
    ELSE IF gitResult = GitFails THEN Unknown ELSE gitResult

\* The environment the build runs with, and git's answer, are arbitrary.
Init ==
    /\ env \in {e \in [EnvNames -> EnvStrings \cup ShaValues \cup {Undefined}] :
                  /\ e["UI_SHA"] \in ShaValues \cup {Undefined, <<>>}
                  /\ \A n \in EnvNames \ {"UI_SHA"} : e[n] \in EnvStrings \cup {Undefined}}
    /\ git \in ShaValues \cup {GitFails}
    /\ GIT_SHA = Unset
    /\ STATIC_DIRECTORY = Unset
    /\ BASE_PATH = Unset
    /\ API_BASE_PATH = Unset

\* Evaluation of the module: the GIT_SHA block and the three constants.
Load ==
    /\ GIT_SHA = Unset
    /\ GIT_SHA' = GitSha(env["UI_SHA"], git)
    /\ STATIC_DIRECTORY' = formatStatic(OrDefault(env["STATIC_DIRECTORY"], <<>>))
    /\ BASE_PATH' = formatBase(OrDefault(env["BASE_PATH"], <<Slash>>))
    /\ API_BASE_PATH' = formatBase(OrDefault(env["API_BASE_PATH"], <<Slash>>))
    /\ UNCHANGED <<env, git>>

Next == Load

Spec == Init /\ [][Next]_vars

-----------------------------------------------------------------------------
(***************************************************************************)
(* Reference definition of a base path: a string that starts and ends     *)
(* with a slash.  The base path made of a value is the shortest such       *)
(* string that contains the value; it is unique on these inputs, and       *)
(* stated without reference to how formatBase builds it.                   *)
(***************************************************************************)
IsBasePath(s) == StartsWithSlash(s) /\ EndsWithSlash(s)

Contains(s, v) == \E i \in 0..(Len(s) - Len(v)) : SubSeq(s, i + 1, i + Len(v)) = v

BasePathsOf(v) ==
    LET cands == {s \in StringsUpTo(Len(v) + 2) : IsBasePath(s) /\ Contains(s, v)}
    IN {s \in cands : \A t \in cands : Len(s) <= Len(t)}

\* Once the module is evaluated, BASE_PATH and API_BASE_PATH are each the
\* shortest slash-delimited string containing the environment's value (or
\* the default "/"): formatBase neither doubles a slash the user gave nor
\* leaves one out, on every value up to MaxLen characters.
BasePathsMinimal ==
    BASE_PATH # Unset =>
        /\ BASE_PATH \in BasePathsOf(OrDefault(env["BASE_PATH"], <<Slash>>))
        /\ API_BASE_PATH \in BasePathsOf(OrDefault(env["API_BASE_PATH"], <<Slash>>))
=============================================================================
