---------------------------- MODULE ChannelTexts ----------------------------
(***************************************************************************)
(* Channels on every text of at most MaxLen symbols, typed one symbol at a *)
(* time.  Patterns are tried against every channel name of at most         *)
(* ChannelLen symbols, and against the patterns of at most GrantLen that a *)
(* grant may hold.                                                         *)
(***************************************************************************)
EXTENDS Channels

CONSTANTS MaxLen, ChannelLen, GrantLen
VARIABLE text

ASSUME LengthAssumption == MaxLen \in Nat /\ ChannelLen \in Nat /\ GrantLen \in Nat

ChannelNames == {t \in BoundedSeq(Char \cup {Dot}, ChannelLen) : IsChannel(t)}
GrantPatterns == {PatternOf(t) : t \in {u \in BoundedSeq(Symbol, GrantLen) : IsPattern(u)}}

TextInit == text = <<>>
TypeSymbol == \E ch \in Symbol : Len(text) < MaxLen /\ text' = Append(text, ch)
TextNext == TypeSymbol
TextSpec == TextInit /\ [][TextNext]_text

-----------------------------------------------------------------------------
(* What the module comment of channels/mod.rs promises, stated without     *)
(* splitting: "dot-separated segments", each of one or more characters.    *)
WellFormed(name) ==
  /\ name # <<>>
  /\ Range(name) \subseteq Char \cup {Dot}
  /\ name[1] # Dot /\ name[Len(name)] # Dot
  /\ \A i \in 1..(Len(name) - 1) : ~(name[i] = Dot /\ name[i + 1] = Dot)

(* Channel::parse accepts exactly the well-formed names, and the offsets   *)
(* that it precomputes cut an accepted one into the very parts that        *)
(* splitting it at the dots gives: Channel::segment slices at the right    *)
(* bytes for every index.                                                  *)
ParseAcceptsWellFormed ==
  /\ IsChannel(text) <=> WellFormed(text)
  /\ IsChannel(text) =>
       /\ Len(SegmentStarts(text)) = Len(Parts(text))
       /\ \A i \in DOMAIN Parts(text) : Segment(text, i) = Parts(text)[i]

(* Grants are stored as their printed form and parsed again when they are  *)
(* loaded (channel_pattern_serde): a pattern that was accepted once is     *)
(* accepted again, and is the same pattern, with no wildcard in its prefix *)
(* that its printed form would mistake for its own.                        *)
DisplayRoundTrip ==
  IsPattern(text) =>
    LET shown == Display(PatternOf(text))
    IN  /\ PatternOf(text) \in Pattern
        /\ IsPattern(shown) /\ PatternOf(shown) = PatternOf(text)

(* The meaning of a pattern in terms of whole segments.                    *)
MatchesBySegments(p, channel) ==
  IF p = [prefix |-> <<>>, wildcard |-> TRUE] THEN TRUE
  ELSE IF p.wildcard THEN IsStrictPrefix(Parts(p.prefix), Parts(channel))
  ELSE Parts(channel) = Parts(p.prefix)

(* The byte comparison of ChannelPattern::matches never takes a partial    *)
(* segment for a match ("project.*" and "projects.abc") nor misses one: it *)
(* agrees with comparing whole segments, on every accepted pattern.        *)
MatchesIsSegmentwise ==
  IsPattern(text) =>
    \A ch \in ChannelNames :
      Matches(PatternOf(text), ch) <=> MatchesBySegments(PatternOf(text), ch)

(* A client hands what the server sends it for a subscription to that      *)
(* subscription's handlers, and nothing else: the three tests, written in  *)
(* three languages on two representations, agree on every accepted         *)
(* pattern.  Except on ".*", which the server takes for "*" and the        *)
(* clients for a prefix that no channel has, and on "*" in JavaScript.     *)
ClientsAgree ==
  (IsPattern(text) /\ text # <<Dot, Star>>) =>
    \A ch \in ChannelNames :
      /\ RustMatches(text, ch) <=> Matches(PatternOf(text), ch)
      /\ text # <<Star>> => (JsMatches(text, ch) <=> Matches(PatternOf(text), ch))

-----------------------------------------------------------------------------
(* A read grant against a requested subscription.                          *)

Broader(g, p) == \A ch \in ChannelNames : Matches(p, ch) => Matches(g, ch)

(* A subscription that a grant admits matches no channel outside the       *)
(* grant, with one exception: the bare name in front of the grant's ".*".  *)
CoversUpToNamespace ==
  IsPattern(text) =>
    LET wanted == PatternOf(text)
    IN  \A g \in GrantPatterns :
          Covers(g, wanted) => Broader(g, wanted) \/ BareNamespace(g, wanted)

(* No subscription within a grant is refused: if everything that matches   *)
(* the subscription matches the grant, the text comparison says so.  Only  *)
(* patterns that match something are asked for (".a" matches no channel).  *)
CoversComplete ==
  IsPattern(text) =>
    LET wanted == PatternOf(text)
    IN  (\E ch \in ChannelNames : Matches(wanted, ch)) =>
          \A g \in GrantPatterns : Broader(g, wanted) => Covers(g, wanted)
=============================================================================
