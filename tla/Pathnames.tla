------------------------------ MODULE Pathnames ------------------------------
(* Pathname expansion: a word with wildcards against the files there are, by  *)
(* the walk over its segments or, with globstar, by one of two others.        *)
(*                                                                            *)
(* A name is a sequence of characters, a path of names from the working       *)
(* directory. Absolute words, a ** that is part of a name, and the order and  *)
(* slashes of what is found are left out.                                     *)
EXTENDS Patterns

CONSTANTS Files,         \* the paths there are, those behind links too
          Directories,   \* the ones that can be listed
          Links          \* the directories that are symbolic links

Dot == <<".">>
DotDot == <<".", ".">>
Globstar == <<"*", "*">>
IsHidden(name) == name[1] = "."

\* A path without the . and .. in it.
Resolved(path) ==
  FoldLeft(LAMBDA so_far, name : IF name = Dot THEN so_far
                                 ELSE IF name = DotDot THEN IF so_far = << >> THEN so_far ELSE Front(so_far)
                                 ELSE Append(so_far, name), << >>, path)
IsDirectory(path) == Resolved(path) \in Directories \cup {<< >>}
Exists(path) == Resolved(path) \in Files \cup {<< >>}

\* shell_directory_entries: nothing, if it cannot be listed.
EntriesOf(path) ==
  IF IsDirectory(path) THEN {Last(f) : f \in {g \in Files : Front(g) = Resolved(path)}} ELSE {}

\* The options, and GLOBIGNORE: "unset", "null" or "set", with its patterns.
HasPattern(segment) ==
  \E i \in DOMAIN segment : segment[i] \in {"*", "?", "["} /\ (i = 1 \/ segment[i - 1] # "\\")
IgnoreAssigned(o) == o.ignore # "unset"
IgnoresSome(o) == o.ignore = "set"

\* The names a pattern is tried on: synthetic_dot_names beside the entries.
NamesIn(path, pattern, o) ==
  EntriesOf(path) \cup (IF IsDirectory(path) /\ ~o.globskipdots /\ CharAt(pattern, 1) = "." THEN {Dot, DotDot} ELSE {})

\* apply_globignore: by what is after the last slash of each, which is nothing if
\* the paths were written with a slash at the end.
IsIgnored(name, o) ==
  IgnoresSome(o) /\ (name \in {Dot, DotDot} \/ \E p \in o.ignored : Matches(p, name, FALSE))
Kept(paths, slashed, o) ==
  SelectSeq(paths, LAMBDA path : ~IsIgnored(IF slashed THEN << >> ELSE Last(path), o))

\* What is found from each of some places, in any order.
Each(S, Op(_)) == FoldSet(LAMBDA x, found : found \o Op(x), << >>, S)

-----------------------------------------------------------------------------
(* One segment after the other                                                *)

Found_HiddenToo(prefix, pattern, o) ==
  {name \in NamesIn(prefix, pattern, o) : Matches(pattern, name, FALSE)}
\* pathname_expand_segments, and the same for a word of one segment.
Found(prefix, pattern, o) ==
  {name \in NamesIn(prefix, pattern, o) :
    /\ o.dotglob \/ CharAt(pattern, 1) = "." \/ IgnoreAssigned(o) \/ ~IsHidden(name)
    /\ Matches(pattern, name, FALSE)}
RECURSIVE SegmentsFrom(_, _, _, _, _)
SegmentsFrom(word, k, prefixes, seen, o) ==
  IF k > Len(word.segments) \/ prefixes = {} THEN prefixes
  ELSE LET segment == word.segments[k]
           last == k = Len(word.segments) /\ ~word.slash
           wild == HasPattern(segment)
           next == IF wild THEN UNION {{Append(p, name) : name \in Found(p, segment, o)} : p \in prefixes}
                   ELSE {p \in {Append(q, segment) : q \in prefixes} : last /\ seen => Exists(p)}
       IN  SegmentsFrom(word, k + 1, next, seen \/ wild, o)
ExpandSegments(word, o) == Kept(Each(SegmentsFrom(word, 1, {<< >>}, FALSE, o), LAMBDA path : <<path>>), FALSE, o)

-----------------------------------------------------------------------------
(* globstar                                                                   *)

\* collect_globstar_matches: below a directory, links not followed.
WantedBelow(path, suffix, dirs_only) ==
  /\ dirs_only => IsDirectory(path)
  /\ suffix = << >> \/ Matches(suffix, Last(path), FALSE)
Descends_IntoLinks(path) == IsDirectory(path) /\ Last(path) \notin {Dot, DotDot}
Descends(path) == IsDirectory(path) /\ path \notin Links /\ Last(path) \notin {Dot, DotDot}
RECURSIVE Below(_, _, _, _)
Below(dir, suffix, dirs_only, o) ==
  LET hidden == o.dotglob \/ CharAt(suffix, 1) = "." \/ IgnoresSome(o)
      names == {n \in NamesIn(dir, suffix, o) : hidden \/ ~IsHidden(n)}
      From1(name) ==
        (IF WantedBelow(Append(dir, name), suffix, dirs_only) THEN <<Append(dir, name)>> ELSE << >>)
          \o (IF Descends(Append(dir, name)) THEN Below(Append(dir, name), suffix, dirs_only, o) ELSE << >>)
  IN  Each(names, From1)

\* globstar_expand, for one ** with at most one segment after it: what is
\* before it is a directory, whatever characters it has.
OneGlobstar(before, after, slash, o) ==
  LET suffix == IF after = << >> THEN << >> ELSE after[1]
      zero == IF before # << >> /\ after = << >> /\ ~slash THEN <<before>> ELSE << >>
  IN  Kept(zero, TRUE, o) \o Kept(Below(before, suffix, slash, o), slash, o)

\* collect_multi_globstar_paths: each way to the segments is counted.
RECURSIVE WalkSegments(_, _, _, _)
WalkSegments(segments, path, dirs_only, o) ==
  IF segments = << >>
  THEN IF path # << >> /\ (dirs_only => IsDirectory(path)) THEN <<path>> ELSE << >>
  ELSE LET star == segments[1] = Globstar
           rest == Tail(segments)
           names == {n \in EntriesOf(path) :
                       /\ o.dotglob \/ ~IsHidden(n)
                       /\ star \/ Matches(segments[1], n, FALSE)
                       /\ rest # << >> => IsDirectory(Append(path, n)) /\ Append(path, n) \notin Links}
           ways == {<<rest, path>> : r \in IF star THEN {1} ELSE {}}
                     \cup {<<IF star THEN segments ELSE rest, Append(path, n)>> : n \in names}
           Way(way) == WalkSegments(way[1], way[2], dirs_only, o)
       IN  Each(ways, Way)

\* expand_multi_globstar: ** after ** is one.
Collapsed(segments) ==
  FoldLeft(LAMBDA s, segment : IF segment = Globstar /\ s # << >> /\ Last(s) = Globstar THEN s
                               ELSE Append(s, segment), << >>, segments)
Stars(segments) == {k \in DOMAIN segments : segments[k] = Globstar}
ExpandGlobstar(word, o) ==
  LET segments == IF Cardinality(Stars(Collapsed(word.segments))) = 1 THEN Collapsed(word.segments) ELSE word.segments
      star == Least(Stars(segments))
      after == From(segments, star + 1)
  IN  IF Cardinality(Stars(segments)) = 1 /\ (after = << >> \/ (Len(after) = 1 /\ ~word.slash))
      THEN OneGlobstar(To(segments, star - 1), after, word.slash, o)
      ELSE Kept(WalkSegments(Collapsed(segments), << >>, word.slash, o), word.slash, o)

\* pathname_expand_word: the paths the word becomes, none if it stays as it is.
Expand(word, o) ==
  IF \A k \in DOMAIN word.segments : ~HasPattern(word.segments[k]) THEN << >>
  ELSE IF o.globstar /\ Stars(word.segments) # {} THEN ExpandGlobstar(word, o)
  ELSE ExpandSegments(word, o)

-----------------------------------------------------------------------------
(* What it should be: each segment matches a name, ** any number of them.     *)

ShowsHidden(o) == o.dotglob \/ IgnoreAssigned(o)
SegmentFits(segment, name, o) ==
  /\ ~HasPattern(segment) \/ Matches(segment, name, FALSE)
  /\ HasPattern(segment) \/ segment = name
  /\ IsHidden(name) => ShowsHidden(o) \/ CharAt(segment, 1) = "."
\* The ways a path can be what the segments say; it is in how many of them.
RECURSIVE Ways(_, _, _, _)
Ways(segments, path, done, o) ==
  IF segments = << >> THEN IF path = << >> THEN 1 ELSE 0
  ELSE IF segments[1] = Globstar /\ o.globstar
  THEN Ways(Tail(segments), path, done, o)
         + (IF path = << >> \/ (IsHidden(path[1]) /\ ~ShowsHidden(o))
               \/ (Len(path) > 1 /\ Append(done, path[1]) \in Links) THEN 0
            ELSE Ways(segments, Tail(path), Append(done, path[1]), o))
  ELSE IF path = << >> \/ ~SegmentFits(segments[1], path[1], o) THEN 0
  ELSE IF Len(segments) > 1 /\ ~IsDirectory(Append(done, path[1])) THEN 0
  ELSE Ways(Tail(segments), Tail(path), Append(done, path[1]), o)
Promised(word, path, o) ==
  IF (word.slash /\ ~IsDirectory(path)) \/ IsIgnored(Last(path), o)
  THEN 0 ELSE Ways(IF o.globstar THEN Collapsed(word.segments) ELSE word.segments, path, << >>, o)
=============================================================================
