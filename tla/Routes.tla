------------------------------- MODULE Routes -------------------------------
(***************************************************************************)
(* One table of pages and its three readers: the front server, the runtime *)
(* in the browser, which has it without the pages that do not hydrate, and *)
(* `borgo export`, whose files a static host finds by their directory.     *)
(* (packages/borgo/src/router.ts, build.ts, runtime.ts and export.ts)      *)
(*                                                                         *)
(* A text is a sequence of names: the separators inside a param or a name  *)
(* are kept, the letters are not; <<>> is the empty text.  A file and a    *)
(* pattern are sequences of parts, a url is one of segments, each a text   *)
(* and whether it is percent-encoded; "/" has one segment, the empty one.  *)
(***************************************************************************)
EXTENDS Naturals, Sequences, FiniteSets, SequencesExt

CONSTANTS
  Files,       \* what pages/ may hold
  Texts,       \* texts of the segments of a url, values of params
  Unsafe,      \* names that a url cannot carry as they are
  MaxPages,    \* bound: pages of an app
  MaxSets,     \* bound: params that one prerenderPaths lists
  MaxSegments  \* bound: segments of a url, besides a trailing slash

\* A name has letters, and no separator.  A page that named two params alike could
\* read but one of them.
ASSUME RoutesAssumption ==
  /\ {MaxPages, MaxSets, MaxSegments} \subseteq Nat /\ Texts \subseteq Seq(STRING)
  /\ \A file \in Files :
       /\ file \in Seq([param : BOOLEAN, text : Seq(STRING)]) /\ file # <<>>
       /\ \A i \in DOMAIN file : Len(file[i].text) = 1
       /\ \A i, j \in DOMAIN file : file[i].param /\ file[i] = file[j] => i = j

VARIABLES
  routes,    \* routes.gen.tsx: the pages, in order
  hydrated,  \* those that are in the table of the client
  screen,    \* the page whose component the browser shows, and the answer it was given
  plans,     \* the export: what became of each path
  site       \* dist/site: directory |-> the answer in its index.html

routesVars == <<routes, hydrated, screen, plans, site>>

NotFound == [page |-> <<>>, params |-> <<>>]   \* no page matches

RoutesInit ==
  /\ routes = <<>> /\ hydrated = {} /\ screen = <<>>
  /\ plans = <<>> /\ site = <<>>

-----------------------------------------------------------------------------
(* Patterns and urls.                                                      *)

Static(text) == [param |-> FALSE, text |-> text]
Param(name) == [param |-> TRUE, text |-> <<name>>]

\* filePathToPattern
Pattern(file) ==
  LET cleaned == IF Last(file) = Static(<<"index">>) THEN Front(file) ELSE file
  IN IF cleaned = <<>> THEN <<Static(<<>>)>> ELSE cleaned

DynamicSegments(file) == Cardinality({i \in DOMAIN Pattern(file) : Pattern(file)[i].param})

\* encodeURIComponent, and what a URL does to a text.
Encode(text) ==
  [text |-> text, encoded |-> Len(text) > 1 \/ \E i \in DOMAIN text : text[i] \in Unsafe]
SafeDecode(segment) == segment.text

\* Trailing slashes are ignored.
Stripped(url) ==
  LET kept == {i \in DOMAIN url : url[i].text # <<>>}
  IN IF kept = {} THEN <<Encode(<<>>)>>
     ELSE SubSeq(url, 1, CHOOSE i \in kept : \A j \in kept : j <= i)

Fits(part, segment) ==
  IF part.param THEN segment.text # <<>>
  ELSE segment = [text |-> part.text, encoded |-> FALSE] \/ part.text = SafeDecode(segment)

\* matchPattern
MatchPattern(pattern, path) ==
  Len(pattern) = Len(path) /\ \A i \in DOMAIN path : Fits(pattern[i], path[i])

Params(pattern, path) ==
  LET names == {pattern[i].text : i \in {j \in DOMAIN pattern : pattern[j].param}}
  IN [n \in names |-> SafeDecode(path[CHOOSE i \in DOMAIN pattern :
                                       pattern[i] = [param |-> TRUE, text |-> n]])]

\* matchRoute: the first page of a table that matches.
MatchRoute(url, table) ==
  LET path == Stripped(url)
      at == SelectInSeq(table, LAMBDA file : MatchPattern(Pattern(file), path))
  IN IF at = 0 THEN NotFound
     ELSE [page |-> table[at], params |-> Params(Pattern(table[at]), path)]

-----------------------------------------------------------------------------
(* The build.                                                              *)

\* Static segments win over dynamic ones; localeCompare breaks the ties, here any
\* order does.
Ordered(table) ==
  \A i, j \in DOMAIN table : i < j => DynamicSegments(table[i]) <= DynamicSegments(table[j])

\* generateManifest
GenerateManifest ==
  /\ routes = <<>>
  /\ \E files \in UNION {kSubset(n, Files) : n \in 1 .. MaxPages} :
     \E table \in SetToSeqs(files), hydrating \in SUBSET files :
       /\ Ordered(table)
       /\ routes' = table /\ hydrated' = hydrating
  /\ UNCHANGED <<screen, plans, site>>

ClientRoutes ==
  FlattenSeq([i \in DOMAIN routes |-> IF routes[i] \in hydrated THEN <<routes[i]>> ELSE <<>>])

-----------------------------------------------------------------------------
(* The browser.                                                            *)

Serve(url) == MatchRoute(url, routes)

\* A document, hydrated by the component that the client matches; one without
\* scripts is shown as it came.
Load(url) ==
  LET answer == Serve(url)
      component == MatchRoute(url, ClientRoutes)
  IN screen' = [answer |-> answer,
                component |-> IF answer.page \in hydrated THEN component.page ELSE answer.page]

\* mount.  The server of an export has a port of its own, and no browsers.
Mount(url) ==
  /\ routes # <<>> /\ plans = <<>> /\ Load(url)
  /\ UNCHANGED <<routes, hydrated, plans, site>>

\* navigate, from a page with the runtime: the component is the one that the table
\* of the client names, its props are what the server answers.
Navigate(url) ==
  LET matched == MatchRoute(url, ClientRoutes)
  IN /\ screen # <<>> /\ screen.component \in hydrated \cup {NotFound.page}
     /\ IF matched = NotFound THEN Load(url)
        ELSE screen' = [answer |-> Serve(url), component |-> matched.page]
     /\ UNCHANGED <<routes, hydrated, plans, site>>

-----------------------------------------------------------------------------
(* The export.                                                             *)

\* The params that the prerenderPaths of a page with dynamic segments may list.
ParamSets == UNION {[names -> Texts] : names \in
  SUBSET {part.text : part \in {p \in UNION {ToSet(file) : file \in Files} : p.param}}}

\* fillPattern, where it does not throw: the path as it is fetched.
FillPattern(pattern, params) ==
  [i \in DOMAIN pattern |-> Encode(IF pattern[i].param THEN params[pattern[i].text]
                                                       ELSE pattern[i].text)]

IsDot(text) == text \in {<<".">>, <<"..">>}

\* Variant: a separator is encoded like any other letter.
FillsUnchecked(pattern, params) ==
  \A i \in DOMAIN pattern :
    pattern[i].param => pattern[i].text \in DOMAIN params /\ ~IsDot(params[pattern[i].text])

\* A param that is missing, holds a separator or is a dot segment makes it throw.
Fills(pattern, params) ==
  \A i \in DOMAIN pattern :
    pattern[i].param =>
      /\ pattern[i].text \in DOMAIN params
      /\ Len(params[pattern[i].text]) <= 1 /\ ~IsDot(params[pattern[i].text])

\* outputPath, below dist/site: the empty segments leave no directory.
OutputPath(path) == FlattenSeq([i \in DOMAIN path |-> SafeDecode(path[i])])

\* planExport and the expansion of its plans.  A page with a loader has to opt in, and
\* one with dynamic segments to list its params; what throws ends the export before
\* it touches dist/site.
PlanExport ==
  /\ routes # <<>> /\ screen = <<>> /\ plans = <<>>
  /\ \E exported \in SUBSET ToSet(routes) :
       \E lists \in [exported -> UNION {kSubset(n, ParamSets) : n \in 0 .. MaxSets}] :
         LET params(file) == IF DynamicSegments(file) > 0 THEN lists[file] ELSE {<<>>}
             paths == UNION {{FillPattern(Pattern(file), p) : p \in params(file)} : file \in exported}
         IN /\ \A file \in exported : \A p \in params(file) : Fills(Pattern(file), p)
            /\ plans' = [path \in paths |-> "planned"]
            /\ site' = <<>>
  /\ UNCHANGED <<routes, hydrated, screen>>

\* The front server renders, and fails for a path that no page matches, or when the
\* page does.
ExportPage(path) ==
  /\ plans[path] = "planned"
  /\ \/ /\ Serve(path) # NotFound
        /\ site' = [dir \in DOMAIN site \cup {OutputPath(path)} |->
                     IF dir = OutputPath(path) THEN Serve(path) ELSE site[dir]]
        /\ plans' = [plans EXCEPT ![path] = "written"]
     \/ plans' = [plans EXCEPT ![path] = "failed"] /\ UNCHANGED site
  /\ UNCHANGED <<routes, hydrated, screen>>

-----------------------------------------------------------------------------

Urls == LET paths == {[i \in DOMAIN texts |-> Encode(texts[i])] :
                        texts \in UNION {[1 .. n -> Texts] : n \in 1 .. MaxSegments}}
        IN paths \cup {path \o <<Encode(<<>>)>> : path \in paths}

RoutesNext ==
  \/ GenerateManifest \/ PlanExport
  \/ \E url \in Urls : Mount(url) \/ Navigate(url)
  \/ \E path \in DOMAIN plans : ExportPage(path)

RoutesSpec == RoutesInit /\ [][RoutesNext]_routesVars

-----------------------------------------------------------------------------

\* The urls of a page, from its pattern; matching is the inverse.
Addresses(file) ==
  LET names == {part.text : part \in {p \in ToSet(file) : p.param}}
  IN {FillPattern(Pattern(file), params) : params \in [names -> Texts \ {<<>>}]}

\* A page answers for its urls, the page with the fewest params first.
MostSpecific(url) ==
  LET answer == Serve(url)
      path == Stripped(url)
      there == {file \in ToSet(routes) : path \in Addresses(file)}
  IN IF there = {} THEN answer = NotFound
     ELSE /\ answer.page \in there
          /\ FillPattern(Pattern(answer.page), answer.params) = path
          /\ \A file \in there : DynamicSegments(answer.page) <= DynamicSegments(file)

\* What a static host has at a url, it has as the server would answer.  Empty segments
\* between slashes and encoded separators, which only the server tells apart from the
\* plain url, are left aside.
SameOnSite(url) ==
  LET path == Stripped(url)
  IN /\ OutputPath(path) \in DOMAIN site
     /\ Len(path) = 1 \/ <<>> \notin {s.text : s \in ToSet(path)}
     /\ \A s \in ToSet(path) : Len(s.text) <= 1
     => site[OutputPath(path)] = Serve(url)

\* The server, the browser and an exported site give the same page for a url: the
\* most specific one, to the component that it belongs to, with the same params,
\* and no page of the site has the place of another.  Pages that do not hydrate
\* are excepted in the browser (LinkShowsItsPage).
RoutesAgree ==
  /\ routes # <<>> => \A url \in Urls : MostSpecific(url) /\ SameOnSite(url)
  /\ screen # <<>> /\ screen.answer.page \in hydrated => screen.component = screen.answer.page
  /\ \A path \in DOMAIN plans : plans[path] = "written" =>
       OutputPath(path) \in DOMAIN site /\ site[OutputPath(path)] = Serve(path)

\* docs/client-navigation.md:7: a client navigation "fetches the destination's route
\* chunk and its loader props", and what it cannot handle falls back to a full one:
\* the props that are shown belong to the component that shows them.
LinkShowsItsPage == screen # <<>> => screen.component = screen.answer.page
=============================================================================
