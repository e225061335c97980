------------------------------ MODULE Channels ------------------------------
(***************************************************************************)
(* Channel names and channel patterns: src/src/channels/mod.rs, and the    *)
(* comparison of a grant with a requested subscription that                *)
(* ClientConnection::subscribe makes on the printed forms                  *)
(* (src/src/server/connections.rs), and the clients' own test of a message *)
(* against the patterns they have handlers for (client-rs, client-js).     *)
(*                                                                         *)
(* A name is a sequence of symbols.  The code compares bytes, and its      *)
(* matching rests on where a prefix ends inside a longer name ("project"   *)
(* against "projects.abc"), so symbols are the coarsest abstraction that   *)
(* keeps the algorithm: Dot, Star, the characters that a segment may hold  *)
(* (Char), and the ones it may not (Foreign).                              *)
(***************************************************************************)
EXTENDS Naturals, Sequences, FiniteSetsExt, SequencesExt

CONSTANTS Char,     \* [a-zA-Z0-9_-]
          Dot,      \* the separator
          Star,     \* the wildcard
          Foreign   \* every other character

ASSUME SymbolsAssumption ==
  /\ Dot # Star
  /\ Dot \notin Char \cup Foreign
  /\ Star \notin Char \cup Foreign
  /\ Char \cap Foreign = {}

(* Two names of the same length may differ.                                *)
ASSUME CharAssumption == \E c, d \in Char : c # d

Symbol == Char \cup Foreign \cup {Dot, Star}
Text   == Seq(Symbol)

-----------------------------------------------------------------------------
(* str::split('.'): the dot-free parts, in order; "" has one empty part.   *)

Split(parts, ch) ==
  IF ch = Dot THEN Append(parts, <<>>)
  ELSE [parts EXCEPT ![Len(parts)] = Append(@, ch)]

(* upTo[n] is what the first n symbols split into.                         *)
Parts(text) ==
  LET upTo[n \in 0..Len(text)] ==
        IF n = 0 THEN << <<>> >> ELSE Split(upTo[n - 1], text[n])
  IN  upTo[Len(text)]

(* is_valid_segment: at least one character, and all of them allowed.      *)
ValidSegment(part) == part # <<>> /\ Range(part) \subseteq Char

(* The error both parsers give for one part, "none" for a good one.        *)
PartError(part) ==
  CASE part = <<>>          -> "EmptySegment"
    [] part = <<Star>>      -> "WildcardNotAtEnd"
    [] ValidSegment(part)   -> "none"
    [] OTHER                -> "InvalidSegment"

(* Both loops return at the first part with an error.                      *)
FirstError(errors) ==
  LET bad == {i \in DOMAIN errors : errors[i] # "none"}
  IN  IF bad = {} THEN "none" ELSE errors[Min(bad)]

-----------------------------------------------------------------------------
(* Channel *)

(* A fault: the first part may be empty, as in a pattern.                  *)
ChannelErrorLenient(name) ==
  IF name = <<>> THEN "Empty"
  ELSE LET parts == Parts(name)
       IN  FirstError([i \in DOMAIN parts |->
                         IF i = 1 /\ parts[i] = <<>> THEN "none" ELSE PartError(parts[i])])

(* Channel::parse, its verdict.                                            *)
ChannelError(name) ==
  IF name = <<>> THEN "Empty"
  ELSE LET parts == Parts(name)
       IN  FirstError([i \in DOMAIN parts |-> PartError(parts[i])])

IsChannel(name) == ChannelError(name) = "none"

(* Channel::parse, the offsets it precomputes: each one is the previous    *)
(* offset, plus the dot, plus the length of the previous part.             *)
SegmentStarts(name) ==
  LET parts == Parts(name)
      start[i \in DOMAIN parts] ==
        IF i = 1 THEN 0 ELSE start[i - 1] + 1 + Len(parts[i - 1])
  IN  start

(* Channel::segment: the slice from an offset to the next one, without the *)
(* dot (indices start at 0 in the code, at 1 here).                        *)
Segment(name, i) ==
  LET starts == SegmentStarts(name)
      end    == IF i < Len(starts) THEN starts[i + 1] - 1 ELSE Len(name)
  IN  SubSeq(name, starts[i] + 1, end)

-----------------------------------------------------------------------------
(* ChannelPattern *)

(* An accepted pattern has no wildcard left in its prefix.                 *)
Name    == Seq(Char \cup {Dot})
Pattern == [prefix : Name, wildcard : BOOLEAN]

EndsWithDotStar(text) == Len(text) >= 2 /\ text[Len(text) - 1] = Dot
                                        /\ text[Len(text)] = Star

(* ChannelPattern::parse takes "*" whole, strips a final ".*", and then    *)
(* checks the parts of what is left; an empty FIRST part is let through.   *)
PatternOf(text) ==
  CASE text = <<Star>>       -> [prefix |-> <<>>, wildcard |-> TRUE]
    [] EndsWithDotStar(text) -> [prefix   |-> SubSeq(text, 1, Len(text) - 2),
                                 wildcard |-> TRUE]
    [] OTHER                 -> [prefix |-> text, wildcard |-> FALSE]

PatternError(text) ==
  IF text = <<>> THEN "Empty"
  ELSE IF text = <<Star>> THEN "none"
  ELSE IF Last(text) = Star /\ ~EndsWithDotStar(text) THEN "WildcardNotAtEnd"
  ELSE LET parts == Parts(PatternOf(text).prefix)
       IN  FirstError([i \in DOMAIN parts |->
                         IF i = 1 /\ parts[i] = <<>> THEN "none"
                         ELSE PartError(parts[i])])

IsPattern(text) == PatternError(text) = "none"

(* A fault: the wildcard is printed without its dot.                       *)
DisplayNoDot(p) == IF p.wildcard THEN Append(p.prefix, Star) ELSE p.prefix

(* Display for ChannelPattern, also the form grants are serialised in.     *)
Display(p) ==
  IF ~p.wildcard THEN p.prefix
  ELSE IF p.prefix = <<>> THEN <<Star>>
  ELSE p.prefix \o <<Dot, Star>>

(* str::starts_with *)
StartsWith(text, prefix) ==
  /\ Len(prefix) <= Len(text)
  /\ \A i \in 1..Len(prefix) : text[i] = prefix[i]

(* A fault: any name with the prefix matches.                              *)
MatchesPartial(p, channel) ==
  IF p.wildcard THEN StartsWith(channel, p.prefix) /\ Len(channel) > Len(p.prefix)
  ELSE channel = p.prefix

(* ChannelPattern::matches.  Byte index Len(prefix) in the code is symbol  *)
(* Len(prefix) + 1 here.                                                   *)
Matches(p, channel) ==
  IF p.wildcard
  THEN \/ p.prefix = <<>>
       \/ /\ StartsWith(channel, p.prefix)
          /\ Len(channel) > Len(p.prefix)
          /\ channel[Len(p.prefix) + 1] = Dot
  ELSE channel = p.prefix

(* The clients look at a pattern as it was typed, each message against     *)
(* each pattern they have handlers for.  A fault: the dot is cut off too.  *)
PrefixMatchesCut(pattern, channel) ==
  EndsWithDotStar(pattern) /\ StartsWith(channel, SubSeq(pattern, 1, Len(pattern) - 2))

(* The pattern without its star, the dot kept.                             *)
PrefixMatches(pattern, channel) ==
  EndsWithDotStar(pattern) /\ StartsWith(channel, Front(pattern))

(* patternMatches of client-js/src/client.ts                               *)
JsMatches(pattern, channel) == pattern = channel \/ PrefixMatches(pattern, channel)

(* pattern_matches of client-rs/src/client.rs                              *)
RustMatches(pattern, channel) == JsMatches(pattern, channel) \/ pattern = <<Star>>

(* Two faults: the byte after the prefix is not looked at; or always is.   *)
CoversPartial(g, p) ==
  IF g.wildcard THEN StartsWith(Display(p), g.prefix) ELSE Display(g) = Display(p)
CoversNoRoot(g, p) ==
  IF g.wildcard
  THEN /\ StartsWith(Display(p), g.prefix)
       /\ Len(Display(p)) > Len(g.prefix) => Display(p)[Len(g.prefix) + 1] = Dot
  ELSE Display(g) = Display(p)

(* The test in ClientConnection::subscribe: does the read grant g admit a  *)
(* subscription to p?  It looks at the printed form of p, so that a        *)
(* wildcard grant admits its own bare prefix as a subscription.            *)
Covers(g, p) ==
  LET wanted == Display(p)
  IN  IF g.wildcard
      THEN /\ StartsWith(wanted, g.prefix)
           /\ \/ g.prefix = <<>>
              \/ Len(wanted) = Len(g.prefix)
              \/ Len(wanted) > Len(g.prefix) /\ wanted[Len(g.prefix) + 1] = Dot
      ELSE Display(g) = wanted

(* The one subscription that Covers admits beyond what its grant matches.  *)
BareNamespace(g, p) == g.wildcard /\ ~p.wildcard /\ p.prefix = g.prefix
=============================================================================
