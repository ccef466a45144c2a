--------------------------- MODULE ModulePattern ----------------------------
(***************************************************************************)
(* Module patterns (archetype/analysis/pattern.py): how a pattern becomes  *)
(* a regular expression and which module names that matches.  Pure         *)
(* operators.  A module name is the sequence of its segments, a pattern    *)
(* the sequence of the segments of its text.                               *)
(***************************************************************************)
EXTENDS Naturals, SequencesExt

(* A segment of a pattern: text without "*", text with "*", which names it *)
(* matches by itself, or "**".                                             *)
Literal(name) == [kind |-> "literal", names |-> {name}]
Glob(names) == [kind |-> "glob", names |-> names]
GlobStar == [kind |-> "globstar", names |-> {}]

(* A pattern that validate_pattern accepts, and the name of a module.      *)
IsPattern(pattern) ==
  /\ pattern # <<>> /\ pattern \in Seq(ToSet(pattern))
  /\ \A part \in ToSet(pattern) :
       part = GlobStar \/ part = Glob(part.names) \/ \E name \in part.names : part = Literal(name)
IsModuleName(name) == name # <<>> /\ name \in Seq(ToSet(name))

IsLiteral(pattern) == \A i \in DOMAIN pattern : pattern[i].kind = "literal"

(* The name that a literal pattern is.                                     *)
IsName(name, pattern) ==
  Len(name) = Len(pattern) /\ \A i \in DOMAIN name : name[i] \in pattern[i].names

-----------------------------------------------------------------------------
(* The regular expression is a sequence of chunks, one for each part of    *)
(* the pattern.                                                            *)
Segment(names) == [kind |-> "segment", names |-> names]      \* a, or [^.]* for each *
Separated(names) == [kind |-> "separated", names |-> names]  \* \.a
Leading == [kind |-> "leading", names |-> {}]                \* (?:[^.]+\.)*
Trailing == [kind |-> "trailing", names |-> {}]              \* (?:\.[^.]+)*
Between == [kind |-> "between", names |-> {}]                \* (?:\.[^.]+)*\.
Everything == [kind |-> "everything", names |-> {}]          \* [^.]+(?:\.[^.]+)*

(* _collapse_globstar_segments.                                            *)
Collapsed(pattern) ==
  LET parts[k \in 0 .. Len(pattern)] ==
        IF k = 0 THEN <<>>
        ELSE IF pattern[k] = GlobStar /\ parts[k - 1] # <<>> /\ Last(parts[k - 1]) = GlobStar
        THEN parts[k - 1] ELSE Append(parts[k - 1], pattern[k])
  IN  parts[Len(pattern)]

(* Faulty: the separator after "**" is left to the next segment.           *)
ChunkOfJoined(parts, i) ==
  IF parts[i] = GlobStar
  THEN IF i = 1 THEN Leading ELSE Trailing
  ELSE IF i = 1 \/ parts[i - 1] = GlobStar
  THEN Segment(parts[i].names) ELSE Separated(parts[i].names)

ChunkOf(parts, i) ==
  IF parts[i] = GlobStar
  THEN IF i = 1 THEN Leading ELSE IF i = Len(parts) THEN Trailing ELSE Between
  ELSE IF i = 1 \/ parts[i - 1] = GlobStar
  THEN Segment(parts[i].names) ELSE Separated(parts[i].names)

(* _wildcard_pattern_to_regex.                                             *)
WildcardRegex(pattern) ==
  LET parts == Collapsed(pattern)
  IN  IF parts = <<GlobStar>> THEN <<Everything>>
      ELSE [i \in 1 .. Len(parts) |-> ChunkOf(parts, i)]

(* The places in a name where a chunk can begin and end: after the j-th    *)
(* segment, or after the dot that follows it; a name begins as if a dot    *)
(* came before it.                                                         *)
AfterName(j) == <<j, "name">>
AfterDot(j) == <<j, "dot">>

(* The places that a chunk may match up to, from a place.                  *)
MatchedFrom(chunk, name, from) ==
  LET j == from[1]
      onDot == from = AfterDot(j)
      one == {AfterName(i) : i \in {k \in {j + 1} : k <= Len(name) /\ name[k] \in chunk.names}}
  IN  CASE chunk.kind = "segment" -> IF onDot THEN one ELSE {}
        [] chunk.kind = "separated" -> IF onDot THEN {} ELSE one
        [] chunk.kind = "leading" ->
             IF onDot THEN {AfterDot(i) : i \in j .. Len(name) - 1} ELSE {from}
        [] chunk.kind = "trailing" ->
             IF onDot THEN {from} ELSE {AfterName(i) : i \in j .. Len(name)}
        [] chunk.kind = "between" ->
             IF onDot THEN {} ELSE {AfterDot(i) : i \in j .. Len(name) - 1}
        [] chunk.kind = "everything" ->
             IF onDot THEN {AfterName(i) : i \in j + 1 .. Len(name)} ELSE {}

(* re.fullmatch.                                                           *)
FullMatch(regex, name) ==
  LET places[k \in 0 .. Len(regex)] ==
        IF k = 0 THEN {AfterDot(0)}
        ELSE UNION {MatchedFrom(regex[k], name, from) : from \in places[k - 1]}
  IN  AfterName(Len(name)) \in places[Len(regex)]

IsBelow(name, pattern) ==
  Len(name) > Len(pattern) /\ IsName(SubSeq(name, 1, Len(pattern)), pattern)

(* find_matching_nodes with pattern_to_regex: the pattern itself, what is  *)
(* below it, or the regular expression of its wildcards.  A pattern with   *)
(* "*" is no module's name.                                                *)
Matching(pattern, nodes) ==
  LET regex == WildcardRegex(pattern)
      literal == IsLiteral(pattern)
  IN  {node \in nodes : \/ literal /\ (IsName(node, pattern) \/ IsBelow(node, pattern))
                        \/ FullMatch(regex, node)}

(* matches_pattern.                                                        *)
Matches(name, pattern) ==
  IF IsLiteral(pattern)
  THEN IsName(name, pattern) \/ IsBelow(name, pattern)
  ELSE FullMatch(WildcardRegex(pattern), name)

-----------------------------------------------------------------------------
(* What the documentation says of patterns, segment by segment: a pattern  *)
(* without "*" selects a module and all below it; otherwise "*" stands     *)
(* within one segment and "**" for any number of segments.                 *)
Selects(pattern, name) ==
  LET fits[k \in 0 .. Len(pattern)] ==
        IF k = 0 THEN {0}
        ELSE IF pattern[k] = GlobStar
        THEN {j \in 0 .. Len(name) : \E i \in fits[k - 1] : i <= j}
        ELSE {j \in 1 .. Len(name) : j - 1 \in fits[k - 1] /\ name[j] \in pattern[k].names}
      fitting == fits[Len(pattern)]
  IN  IF IsLiteral(pattern) THEN fitting # {} ELSE Len(name) \in fitting

PatternAgrees(pattern, names) ==
  LET selected == {name \in names : Selects(pattern, name)}
  IN  /\ Matching(pattern, names) = selected
      /\ {name \in names : Matches(name, pattern)} = selected
=============================================================================
