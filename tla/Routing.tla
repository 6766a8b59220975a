------------------------------ MODULE Routing ------------------------------
(* Where a request goes: the registries of routes, gates and redirects
   (RouteRegistry, GateRegistry), the languages (LanguageConfig), the patterns
   they match with (WildcardMatch) and the file a path names
   (StaticFileResolver::buildPath).  Paths are spelt as in module Paths.

   The registries are filled by calls of the application, in any order; every
   lookup is a function of what they hold.  A path is a sequence of tokens:
   "/", "*", names, languages, and the suffixes ".html", ".css" and ".png".    *)
EXTENDS Integers, Paths

CONSTANTS Paths,      \* request paths
          Letters,    \* the tokens, in the order of their first characters
          Width,      \* characters of each token
          Speech,     \* languages that may be configured
          Sources, Targets, \* of redirects
          Patterns,   \* of routes and of gates
          MaxHops,    \* maxRedirectHops of hasRedirectLoop
          MaxCalls    \* bound: registrations in a behaviour

None == << >>        \* no such rule; the empty path is never registered

ASSUME RoutingAssumption ==
  /\ Letters \in Seq(STRING) /\ Width \in [Range(Letters) -> Nat \ {0}]
  /\ Paths \cup Sources \cup Targets \cup Patterns \subseteq Seq(Range(Letters)) \ {None}
  /\ Speech \subseteq Range(Letters) \ {"/", "*", ".html", ".css", ".png"}
  /\ MaxHops \in Nat \ {0} /\ MaxCalls \in Nat

VARIABLES languages, \* LanguageConfig::_availableLanguages, the default first
          redirects, \* _redirects and _wildcardRedirects: source -> target
          routes,    \* {"async", "sync"} x pattern of the registered handlers
          gates,     \* the same of the gates (route gates, and page gates alike)
          firstMade, \* the hash order: which of two equal wildcards comes first
          calls
routingVars == <<languages, redirects, routes, gates, firstMade, calls>>

Kinds == {"async", "sync"}

-----------------------------------------------------------------------------
(* WildcardMatch.                                                            *)

Wild(p) == "*" \in Range(p)
Size(p) == LET upto[n \in 0..Len(p)] == IF n = 0 THEN 0 ELSE upto[n - 1] + Width[p[n]]
           IN upto[Len(p)]
Rank(t) == CHOOSE i \in DOMAIN Letters : Letters[i] = t
\* operator< of std::string.
Before(p, q) ==
  \E k \in 1..(Len(p) + 1) :
    /\ k <= Len(q) /\ \A j \in 1..(k - 1) : p[j] = q[j]
    /\ k = Len(p) + 1 \/ Rank(p[k]) < Rank(q[k])

matchWildcard(p, t) ==
  LET from[i \in 1..(Len(p) + 1), j \in 1..(Len(t) + 1)] ==
        IF i > Len(p) THEN j > Len(t)
        ELSE IF p[i] = "*" THEN \E k \in j..(Len(t) + 1) : from[i + 1, k]
        ELSE j <= Len(t) /\ p[i] = t[j] /\ from[i + 1, j + 1]
  IN from[1, 1]
matchesWildcardPattern(p, t) == IF Wild(p) THEN matchWildcard(p, t) ELSE p = t

\* extractWildcardCapture of a pattern that matches: one star captures what it
\* covers, two capture nothing and their rule is passed over.
Stars(p) == {i \in DOMAIN p : p[i] = "*"}
Captures(p) == Cardinality(Stars(p)) = 1
Capture(p, t) == LET i == CHOOSE j \in Stars(p) : TRUE
                 IN SubSeq(t, i, Len(t) - (Len(p) - i))
applyWildcardCapture(target, capture) ==
  FlattenSeq([i \in DOMAIN target |-> IF target[i] = "*" THEN capture ELSE <<target[i]>>])

-----------------------------------------------------------------------------
(* LanguageConfig.                                                           *)

Prefixed(p) == /\ Len(p) >= 2 /\ p[1] = "/" /\ p[2] \in Range(languages)
               /\ Len(p) = 2 \/ p[3] = "/"
stripSupportedLanguagePrefix(p) == IF Len(p) = 2 THEN <<"/">> ELSE SubSeq(p, 3, Len(p))

\* A target on this site: "//" begins an address of another one.
Internal(p) == p # None /\ p[1] = "/" /\ (Len(p) > 1 => p[2] # "/")
normalizeRedirectTargetLanguage(target, request) ==
  IF Internal(target) /\ ~Prefixed(target) /\ Prefixed(request)
    THEN <<"/", request[2]>> \o target ELSE target

-----------------------------------------------------------------------------
(* The lookup that routes and gates share: exact, then the longest wildcard
   (the smaller of two of one length), then both for the path without its
   language.  It returns the pattern that applies.                           *)

\* Mutant: the shortest wildcard that matches.
ShorterFirst(w, v) == Size(w) < Size(v) \/ (Size(w) = Size(v) /\ Before(w, v))
Better(w, v) == Size(w) > Size(v) \/ (Size(w) = Size(v) /\ Before(w, v))

Best(rules, path) ==
  LET match == {w \in rules : Wild(w) /\ matchWildcard(w, path)}
  IN IF match = {} THEN None ELSE CHOOSE w \in match : \A v \in match \ {w} : Better(w, v)
Exact(rules, path) == path \in rules /\ ~Wild(path)
At(rules, path) == IF Exact(rules, path) THEN path ELSE Best(rules, path)
Lookup(rules, path) ==
  IF At(rules, path) # None \/ ~Prefixed(path) THEN At(rules, path)
  ELSE At(rules, stripSupportedLanguagePrefix(path))

Of(kind, registry) == {p \in Patterns : <<kind, p>> \in registry}
findMatchingRoute(kind, path) == Lookup(Of(kind, routes), canonicalRequestPath(path))
\* dispatchAsync: any async match comes before every sync one.
Dispatched(path) ==
  LET async == findMatchingRoute("async", path) IN
  IF async # None THEN <<"async", async>> ELSE <<"sync", findMatchingRoute("sync", path)>>

\* findResolvedRouteGate and findResolvedPageGate: async before sync on one
\* path, the best wildcard of both together, then without the language.
Guarded == {g[2] : g \in gates}
Resolved(path) ==
  LET pattern == Lookup(Guarded, canonicalRequestPath(path))
  IN <<IF <<"async", pattern>> \in gates THEN "async" ELSE "sync", pattern>>
Gated(path) == Resolved(path)[2] # None

-----------------------------------------------------------------------------
(* Redirects: the path as it came, no canonical spelling.  "table" is a map
   of sources to targets.                                                    *)

Redirected(table, p, path, request) ==
  normalizeRedirectTargetLanguage(
    IF Wild(p) THEN applyWildcardCapture(table[p], Capture(p, path)) ELSE table[p], request)

\* Of two wildcards of one length the first in hash order applies.
findMatchingWildcardRedirect(table, path) ==
  LET match == {w \in DOMAIN table : Wild(w) /\ Captures(w) /\ matchWildcard(w, path)}
      tops == {w \in match : \A v \in match : Size(v) <= Size(w)}
  IN IF match = {} THEN None
     ELSE CHOOSE w \in tops : \A v \in tops \ {w} : Before(w, v) = firstMade
RedirectAt(table, path) ==
  IF Exact(DOMAIN table, path) THEN path ELSE findMatchingWildcardRedirect(table, path)

findMatchingRedirect(table, path) ==
  LET bare == stripSupportedLanguagePrefix(path) IN
  IF RedirectAt(table, path) # None THEN Redirected(table, RedirectAt(table, path), path, path)
  ELSE IF Prefixed(path) /\ RedirectAt(table, bare) # None
    THEN Redirected(table, RedirectAt(table, bare), bare, path)
  ELSE None

\* Where one redirect leads, and n of them; None once there is no other, or it
\* leaves the site.
Hop(table, path) ==
  LET next == IF path = None THEN None ELSE findMatchingRedirect(table, path)
  IN IF Internal(next) THEN next ELSE None
After(table, path, n) ==
  LET after[k \in 0..n] == IF k = 0 THEN path ELSE Hop(table, after[k - 1])
  IN after[n]

\* Mutant: the check looks for a rule that leads back to its source at once.
SelfLoopOnly(table, start) == findMatchingRedirect(table, start) = start
hasRedirectLoop(table, start) == After(table, start, MaxHops) # None

-----------------------------------------------------------------------------
(* StaticFileResolver::buildPath.  "preferred" is the language of the
   Accept-Language header, or the default.                                   *)

Dots == {".html", ".css", ".png"}
\* getExtension: from the first dot on; a path without one is a page.
Suffix(p) == LET dot == SelectInSeq(p, LAMBDA t : t \in Dots)
             IN IF dot = 0 THEN ".html" ELSE IF dot = Len(p) THEN p[dot] ELSE "unknown"

buildPath(p, preferred) ==
  LET mount == IF languages = << >> \/ Prefixed(p) THEN <<"/", "html">>
               ELSE <<"/", "html", "/", preferred>>
      page == IF Prefixed(p) /\ Len(p) = 3 THEN SubSeq(p, 1, 2) \o <<"/", "index">> ELSE p
  IN CASE Suffix(p) = "unknown" -> None
       [] Suffix(p) = ".png" ->
            IF IsPrefix(<<"/", "assets", "/">>, p) THEN p
            ELSE <<"/", "assets", "/", "images">>
                   \o SubSeq(p, SelectLastInSeq(p, LAMBDA t : t = "/"), Len(p))
       [] Suffix(p) = ".css" ->
            <<"/", "assets", "/", "css">>
              \o (IF Prefixed(p) THEN stripSupportedLanguagePrefix(p) ELSE p)
       [] p = <<"/">> -> mount \o <<"/", "index", ".html">>
       [] OTHER -> mount \o page \o (IF Last(p) = ".html" THEN << >> ELSE <<".html">>)

-----------------------------------------------------------------------------
(* The calls of the application.                                             *)

Call == calls < MaxCalls /\ calls' = calls + 1

RoutingInit ==
        /\ languages \in {<< >>} \cup {<<l>> : l \in Speech} /\ redirects = << >>
        /\ routes = {} /\ gates = {} /\ firstMade \in BOOLEAN /\ calls = 0

Probe(from) == [i \in DOMAIN from |-> IF from[i] = "*" THEN "loop-check" ELSE from[i]]
Without(table, from) == [s \in DOMAIN table \ {from} |-> table[s]]
With(table, from, to) == [s \in DOMAIN table \cup {from} |-> IF s = from THEN to ELSE table[s]]

\* The rule is stored over that of the same source and probed; when the probe
\* loops it is taken out, and the rule it replaced is gone as well.
addRedirect(from, to) ==
  /\ Call
  /\ redirects' = LET added == With(redirects, from, to)
                  IN IF hasRedirectLoop(added, Probe(from)) THEN Without(added, from) ELSE added
  /\ UNCHANGED <<languages, routes, gates, firstMade>>

\* addRoute with a gate of its own, or without one.
addRoute(kind, pattern, gateKind) ==
  /\ Call /\ routes' = routes \cup {<<kind, pattern>>}
  /\ gates' = IF gateKind = "none" THEN gates ELSE gates \cup {<<gateKind, pattern>>}
  /\ UNCHANGED <<languages, redirects, firstMade>>

addGate(kind, pattern) ==
  /\ Call /\ gates' = gates \cup {<<kind, pattern>>}
  /\ UNCHANGED <<languages, redirects, routes, firstMade>>

removeGate(pattern) ==
  /\ Call /\ gates' = gates \ (Kinds \X {pattern})
  /\ UNCHANGED <<languages, redirects, routes, firstMade>>

clearGates == Call /\ gates' = {} /\ UNCHANGED <<languages, redirects, routes, firstMade>>

setAvailableLanguages(l) ==
  Call /\ languages' = l /\ UNCHANGED <<redirects, routes, gates, firstMade>>

RoutingNext ==
        \/ \E from \in Sources, to \in Targets : addRedirect(from, to)
        \/ \E p \in Patterns : \/ addRoute("sync", p, "none") \/ addRoute("async", p, "none")
                               \/ addRoute("sync", p, "sync") \/ addRoute("sync", p, "async")
                               \/ addRoute("async", p, "async")
        \/ \E k \in Kinds, p \in Patterns : addGate(k, p)
        \/ \E p \in Patterns : removeGate(p)
        \/ clearGates
        \/ \E l \in Speech : setAvailableLanguages(<<l>>)
RoutingSpec == RoutingInit /\ [][RoutingNext]_routingVars

-----------------------------------------------------------------------------
(* Properties.                                                               *)

\* However exact redirects were added, overwritten and refused, and whatever
\* language was configured meanwhile, following them from any path uses no rule
\* twice.  (With wildcards, or with rules that name a language, it may: the probe
\* tries one path only, in the languages of that moment.)
Plain(p) == ~Wild(p) /\ Range(p) \cap Speech = {}
ExactRedirectsEnd ==
  (\A s \in DOMAIN redirects : Plain(s) /\ Range(redirects[s]) \cap Speech = {})
    => \A p \in Paths : After(redirects, p, Cardinality(DOMAIN redirects) + 1) = None

\* The documented order of gates: of all that match a path, as it is or without
\* its language, the one that applies is the first by: matches the path as it
\* is, is exact, is longer, is smaller; and async of two on one pattern.
Rules(path) == {[bare |-> b, kind |-> g[1], pattern |-> g[2]] : b \in BOOLEAN, g \in gates}
Applies(r, path) ==
  LET canon == canonicalRequestPath(path) IN
  /\ r.bare => Prefixed(canon)
  /\ matchesWildcardPattern(r.pattern, IF r.bare THEN stripSupportedLanguagePrefix(canon) ELSE canon)
Precedes(r, o) ==
  \/ ~r.bare /\ o.bare
  \/ /\ r.bare = o.bare
     /\ \/ ~Wild(r.pattern) /\ Wild(o.pattern)
        \/ /\ Wild(r.pattern) = Wild(o.pattern)
           /\ \/ Size(r.pattern) > Size(o.pattern)
              \/ Size(r.pattern) = Size(o.pattern) /\ Before(r.pattern, o.pattern)
              \/ r.pattern = o.pattern /\ r.kind = "async" /\ o.kind = "sync"
GatePrecedence ==
  \A p \in Paths :
    LET match == {r \in Rules(p) : Applies(r, p)} IN
    IF match = {} THEN ~Gated(p)
    ELSE \E r \in match : /\ Resolved(p) = <<r.kind, r.pattern>>
                          /\ \A o \in match \ {r} : Precedes(r, o)

\* A page that is gated under its name without a language is gated under every
\* spelling that is served the same file: with a language, with or without
\* ".html".  The index page, which has two names, is left out.
Index(p) == p = <<"/">> \/ "index" \in Range(p)
GateCoversSpellings ==
  \A p \in {r \in Paths : Gated(r) /\ ~Prefixed(r) /\ ~Index(r) /\ Suffix(r) = ".html"},
     l \in Speech :
    \A q \in Paths : buildPath(p, l) = buildPath(q, l) => Gated(q)

\* When every route has a gate on its pattern and there are no others, the gate
\* that is asked is the gate of the handler that runs - or, because any async
\* route comes before every sync one while gates of both kinds are compared,
\* that of a sync route passed over.
GateOfRoute ==
  Guarded = {r[2] : r \in routes}
    => \A p \in Paths :
         \/ Resolved(p)[2] = Dispatched(p)[2]
         \/ Dispatched(p)[1] = "async" /\ Resolved(p)[2] = findMatchingRoute("sync", p)

\* The gate that is asked is the one the precedence of patterns names, whichever
\* spelling of a page or a route a client uses.
GatesApply == GatePrecedence /\ GateCoversSpellings /\ GateOfRoute

\* "Redirects that would create a loop are rejected", wildcards included: no
\* path is redirected for ever.  The code does not hold to it.
NoRedirectLoop == languages = << >> => \A p \in Paths : After(redirects, p, MaxHops) = None
=============================================================================
