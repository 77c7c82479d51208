# TLA+ models of django-gisserver

django-gisserver is a WFS 2.0 server for Django: it turns a GetFeature request
into database queries, pages through their results and streams the features as
GML, GeoJSON or CSV. This directory holds TLA+ models of two kinds of its parts:
those whose behaviour depends on *when* things happen (which property reads the
database first, what other sessions write in between, where a chunk ends, where
an exception comes), and those that pass a decision from place to place, where
what is decided in one file has to fit what another file does with it (names in
a link, columns of a query, axes of a coordinate system). TLC checks them on small instances (`*.cfg`), TLAPS proves the
central properties for all values of the constants (`*Proofs.tla`).
`PROJECT.json` lists the runs, the source lines every definition stands for,
the mutations each property detects, and the hazards.

    tlc -workers 2 -config GetFeaturePaging_server.cfg MCGetFeaturePaging
    tlapm PrefetchCacheProofs.tla

Paths below are relative to `src/gisserver/`.

## Inventory

| Component | Source | State | Operations | Interacts with | Hard about it | Correct when |
|---|---|---|---|---|---|---|
| Paged results | `output/results.py` | per query: fetched page, iterator, `has_more`, `number_matched`; per response: links | `fetch_results`, `iterator`, `number_returned`, `number_matched`, `has_next`, `first` | asked by operation and renderer; reads the database lazily | two ways to read a page, answers derived from what was read so far, other sessions write between the queries | numbers, links and features of a response agree; a page is read once |
| GetFeature operation | `operations/wfs20.py`, `operations/base.py` | none of its own | `get_hits`, `get_results`, pagination, links | view, parser, results, renderer | paging spans requests without any state on the server | following the links yields the result and ends |
| Iterators | `output/iters.py` | chunk, LRU caches of foreign keys, count | `__iter__` of the counting and the prefetching iterator | results, Django's prefetch, lru_dict | sentinel row; cache across chunks; eviction; consumer stops early | every row once, with its own related objects |
| Streamed output | `output/base.py`, `gml32.py`, `geojson.py`, `csv.py`, `utils.py` | buffer, generator position | `get_response`, `render_stream`, `render_exception` | view (first chunk), WSGI server (rest), results | errors half-way through a 200 response; client leaves; buffer cut anywhere | nothing lost or repeated, truncation is told, text is well-formed, memory is bounded |
| Dispatch and errors | `views.py`, `exceptions.py` | `ows_request` | GET/POST dispatch, `handle_exception`, `wrap_filter_errors` | everything | which exception becomes which answer; errors before the request is known | every exception becomes one OWS report or one Django error |
| Request parsing | `parsers/ows/*`, `parsers/wfs20/*`, `parsers/xml.py`, `ast.py`, `values.py` | none (immutable AST) | `from_kvp_request`, `from_xml`, `as_kvp`, split of KVP lists | operations, query compiler | case-insensitive duplicates, parallel lists, KVP and XML must agree | a request means the same in both encodings |
| Query compiler | `parsers/query.py`, `parsers/fes20/*` | annotations, lookups, typed and extra lookups, ordering, `is_empty` | `build_*` visitors, `get_queryset` | feature types, projection, ORM | turned comparisons, one join for a filter, DISTINCT asked for by operands, grouping of ids, missing types | each predicate reaches the query of its type, once |
| Stored queries | `parsers/wfs20/stored.py`, `extensions/queries.py`, `output/stored.py` | registry; parameters | `register`, `resolve_query`, `bind`, `build_query` | parser, compiler, operation | id `...GetFeatureById` fails differently; parameters by name | exactly the declared parameters |
| Projection | `projection.py`, `parsers/wfs20/projection.py` | elements to render, cached properties | `add_field`, `remove_fields`, relations and prefetches | renderers, compiler | cached lists must follow changes of the elements | what was asked for is rendered, and what is rendered is loaded |
| Feature types, schema | `features.py`, `types.py`, `output/xmlschema.py` | built with the view, then read-only (cached properties) | `resolve_element`, `bind_namespace`, schema output | all | fields are flattened, nested, dotted; three places walk the tree | documents match their schema |
| CRS, geometries | `crs.py`, `geometries.py`, `parsers/gml/*` | caches of systems by name and number; tags on geometry objects | `from_string`, `cache_instance`, `apply_to`, bounding boxes | parser, feature types, renderers, PROJ, the database | one number has notations with different axes; geometries are changed in place | coordinates are in the order that is meant and announced |
| Filter functions | `extensions/functions.py` | registry | `register`, `resolve_function` | compiler | SQL | not modelled |
| Database expressions | `db.py` | none | annotations that render geometries in SQL | renderers, prefetches | an annotation is put on one queryset and looked for on another | what is looked for is there |
| Settings | `conf.py` | module constants | override and restore in tests | all | nested overrides | not modelled |
| Glue | templates, `templatetags`, `loadgeojson`, `compat.py` | none | | | | not modelled |

The flow of a request: the view parses it, the operation asks the query
compiler for one queryset per feature type and wraps each in a
`SimpleFeatureCollection`; `set_pagination_links()` asks all collections whether
there is more; the renderer's generator is pulled once by `get_response()` and
then by the WSGI server. Nothing of this runs in a transaction, and within one
request nothing is concurrent: the other actors are the client (which comes back
with the next link, or leaves), other sessions of the database, and failures.

## Modules

| Module | Models |
|---|---|
| `PagedRead` | abstract: what paging promises a client |
| `GetFeaturePaging` | paged results, pagination of the operation, the order in which renderers ask, `CountingIterator`, a client, a writer |
| `MCGetFeaturePaging` | its constants for TLC |
| `GetFeaturePagingProofs`, `GetFeaturePagesProofs` | its theorems: one response; numbers, links and the pages together |
| `FeatureStream` | abstract: a stream of rows, each with the objects it refers to |
| `PrefetchCache` | `ChunkedQuerySetIterator`, its LRU caches, a writer |
| `MCPrefetchCache`, `PrefetchCacheProofs` | constants for TLC; theorems |
| `StreamResponse` | `get_response()`, the three `render_stream()` and `render_exception()`, failures, a client that leaves |
| `MCStreamResponse`, `StreamResponseProofs` | constants for TLC; theorems |
| `QueryCompiler` | the queries of a request: binding, permissions, `CompiledQuery`, filters, identifiers, `GetFeatureById` |
| `MCQueryCompiler`, `QueryCompilerProofs` | constants for TLC; theorems |
| `RequestParsing` | pure: parameters and documents of all six operations, and the way back from a document to a URL |
| `RequestDispatch` | `WFSView`, `handle_exception()`, validation, next links, a client; uses `RequestParsing` |
| `RequestMeaning` | when a first page is understood and can be answered: what theorems suppose of clients |
| `MCRequestDispatch`, `RequestDispatchProofs` | what clients send: every meaning in several spellings, and slips; theorems |
| `FeatureSchema` | pure: fields, the elements they make, XPaths, the types of DescribeFeatureType |
| `FeatureProjection` | `FeatureProjection`, `decorate_queryset()` and the attribute accesses of the renderers; uses `FeatureSchema` |
| `MCFeatureProjection`, `FeatureProjectionProofs` | models and feature types for TLC; theorems |
| `CoordinateSystems` | `CRS`, its caches, `apply_to()`, filter geometries, the coordinates that renderers write |
| `MCCoordinateSystems`, `CoordinateSystemsProofs` | sites and requests for TLC; theorems |

Operators whose name ends in `_Something` under a comment "Mutation" or "Mutant" are wrong
on purpose: `PROJECT.json` says which property fails when the operator before
the underscore is defined that way.

### GetFeaturePaging

`sfc[c]` is the `SimpleFeatureCollection` of query `c` (`fetched`/`cache` is
`_result_cache`, `matched` is `_number_matched`), `iter[c]` its
`_result_iterator`, `out` and `body` what was written to the response, `stage`
the place in `process_request()`, `set_pagination_links()` and `render_stream()`.

The properties of `results.py` come in pairs: `XKnown(c)` says that property `X`
can be answered without the database, `X(c)` is the answer. An action that asks
for a property waits until it is known for all collections it iterates over;
`FetchResults(c)` and `CountMatched(c)` are the queries that make it known. So
each query is a step, and a write can come between any two. `FeatureCollection`
uses `all()` and `any()`, which stop early: `SomeMayHaveNext` and `SetNext` are
these early exits.

* A row is its sort key, a page a set of rows. A queryset without an ordering may
  return any rows of the right number (`Slices`).
* `Endless` stands for `stop == math.inf`.
* A response keeps one number per collection where the program writes the sum.
* The client asks for a page, then follows `next` (`FollowNext`) or stops (`Stay`).
* Left out: `first()`; negative `COUNT` (the queryset refuses the slice); errors
  of the database; the spelling of parameters in a link (which is in
  `RequestDispatch`); the value array of
  `GetPropertyValue`. CSV has no links in its text: the CSV pager is the link the
  operation computed.

### PrefetchCache

`rows` is the result of the cursor (one snapshot), `lo`/`hi` the chunk, `loaded`
what `_state.fields_cache` and the prefetch caches of its instances hold, `cache`
the `lru_dict`, the most recently used entry first. One step is one chunk read,
one instance restored or persisted, one prefetch query, one feature rendered.
The loops of `_restore_caches()` and `_persist_prefetch_cache()` run over lookups
outside and instances inside; as each lookup has a cache of its own the model
takes all lookups of an instance in one step. A relation that is `Unloaded` when
the feature is rendered is read then, as Django does. A row holds the value of
the foreign key's *column*; `Pk` maps it to the primary key of the object, which
is the identity unless the foreign key has a `to_field`. `chunk_size = 1` would
make an LRU of size 0, which `lru_dict` refuses: `ChunkSize >= 2`.

### StreamResponse

Text is a sequence of tokens. `output` is the buffer, `chunk` what a `yield` has
handed over, `turn` says who runs: the generator, `get_response()` (which pulls
the first chunk), or the WSGI server. `document` is a history variable: all text
that was written, whatever became of it. Every query and every rendering can
fail at its place (`Fail...`), with an error the server knows ("filter", an
`OWSException`) or another one. `Fail` is both fates: before the first chunk the
view answers with a status, after it `_trap_exceptions()` yields what
`render_exception()` returns and raises again. A feature is one token, except in
GML, where it is written tag by tag and a failure leaves its tags open. The
legacy-CRS note is written for all collections or for none.

### QueryCompiler

`request` is the list of queries, `types` the feature types they were bound to,
`compiler` the `CompiledQuery` of the query `at`, `q` the Q objects of the filter
nodes that were built, `answers` what the querysets return. `phase` "refused" is
an OWS exception, "crashed" an internal error of the server. `Bind` is one query
in the loop of `validate_request()`; `Start` to `GetQueryset` are
`QueryExpression.get_queryset()`, one step for each node of the filter.

* A filter is the sequence of its nodes in the order in which they build, and a
  logical node names the positions of its operands.
* A Q object is what the database makes of it: the pairs of a feature and a
  related object (the rows of the join) where it is true, and, since Django
  gives a lookup under `~Q` a subquery of its own, what it and its negation are
  there. The code gives one Q of the whole filter to one `filter()`, which goes
  through it from left to right: what a comparison outside every Not has joined
  by then (`Joined`) makes the subquery of a later Not one about the joined object
  only (`split_exclude()`), so `row`, `sub` and `neg` are functions of that.
  Comparisons of an annotation with NULL are unknown, which SQL's NOT
  keeps; Django guards only columns against that.
* A Not of a Not is no filter of the model: Django's `~Q` turns a flag, so that
  it is what the operand's operand is, without the subquery.
* `Result` counts how often each feature comes back: joins repeat it, DISTINCT
  undoes that unless the ordering has a column of the join.
* Identifiers are sorted by a number that stands for their text; the type name is
  what `parse_qname()` made of the prefix, and `Fixed` is `fix_type_name()`.
* `IsQuery` says what is tried: functions and right-hand sides are of plain elements,
  and `PropertyIsNull`, for which the code has a TODO (`operators.py:840`), of elements
  that do not join. TLC evaluates it of every request of the run, and the theorems
  are about all others of this kind.
* The reference (`Asked`) is read from the Filter Encoding standard and the
  comment in `lookups.py`: a comparison holds if it holds for one of the values.
* Left out: extra lookups (`XPathMatch.orm_filters` is None, `types.py:1086`),
  `PropertyIsLike` and distance operators, functions other than `fes:Add`, `PropertyIsNull`
  of a repeated element, projection and value references, `first()`.

### RequestParsing and RequestDispatch

`phase` is how far `WFSView` has come with a request: received, input loaded,
service and version read, operation found, parsed, validated, answered. Each phase
has the list of the checks its code makes, in the order in which they raise
(`FirstFault`); a step goes on if none raises, else `Refuse` is
`handle_exception()`. The client then opens the next link, as a GET request
whatever its first request was, or leaves.

* A parameter is a sequence of groups (`(a)(b)`), a group a token or a list of
  tokens; `Garbage` is whatever the parser of the parameter refuses, `Empty` the
  empty text. A QName is a prefix and a local name. `spelled` keeps the letters
  of a parameter's name, which matter when a link is made.
* A QName is resolved when it is parsed; an XPath (PROPERTYNAME, SORTBY,
  VALUEREFERENCE) keeps the text it was written as, and is resolved when its query
  is built (`XPathFault`). `XPath` is both: prefix, name and the namespace that the
  prefix had where it was read, `None` if it had none. `LocalAliases` are the
  prefixes of the view, `StandardAliases` those that URLs have besides
  (`parsers/ows/kvp.py:33`); a document has the first with its own.
* as_kvp() writes texts: XPaths without the prefixes that the document declared,
  type names in Clark notation, the system as `str()` of what SRSNAME was resolved
  to (`CrsText`), the parameters of a stored query as `str()` of their values
  (`Rewritten` says of which this is another text).
* `request` is the parsed request with the same fields for all operations.
* `meant` is what the client wants to say, and `MCRequestDispatch` writes it down:
  as a URL in both letter cases and with the names of WFS 1, grouped for several
  queries, or as XML. `SlipInputs` mean nothing; each has one thing wrong, or two
  that exclude each other.
* `Exception` stands for every exception that is not an `OWSException`: Django
  answers 500 to it. Filters and boxes are opaque here, and a system is its number
  and whether its axes are x/y; what they become is in `QueryCompiler` and `CoordinateSystems`, and how many features
  a page has is in `GetFeaturePaging`.
* Left out: dates and schema URLs, the syntax of OUTPUTFORMAT, HTML pages,
  authentication hooks of a site.

### FeatureSchema and FeatureProjection

An element is the path of names that leads to it. `FeatureSchema` says what the
configured fields of a feature type become: attributes of models, elements of a
type, matches of an XPath, types in a schema. `FeatureProjection` is one query:
binding, `FeatureProjection.__init__()`, `add_field()`, `remove_fields()`, what
`decorate_queryset()` asks of the database, and the rendering of one row.

* `roots`, `keys` and `children` are `xsd_root_elements` and `xsd_child_nodes`,
  `cached` is the one cached property that is read before the projection changes.
* `relations` are the `Prefetch` objects with the columns each loads. What Django
  refuses (`only()` of an unknown name, a prefetch after one that passes through
  it) is `Query`.
* `reads` are the attributes that were *not* loaded when the renderer took them,
  each of which is a query for every row.
* `nulls` says whether relations lead nowhere and geometries are null.
* Left out: the projection of `GetPropertyValue`, XSD data types, the formatting
  of values, the `__str__()` of a model.

### CoordinateSystems

A site caches systems (`Register`) and declares some for its feature type
(`Declare`), then serves a request: `output` is the system of the response, `box`
the geometry of its filter, `places` the geometry objects of the features and
`written` what the renderers wrote, in order.

* A geometry is its srid, the order its coordinates are *really* in, and the
  order `apply_to()` has tagged it with. What PROJ does with the two
  (`Transformed`) and that PostGIS stores x/y is external.
* `MeantOrder` is the reference: what the documentation says a notation means,
  with the two settings for legacy clients.
* `PlaceOf` tells which features share a geometry object, as a prefetch makes
  them share a related object.
* Left out: coordinates themselves, the srid of a geometry after a
  transformation to CRS84, several queries with different `srsName`, the syntax
  of GML.

## What is checked

| Run | Property | Says |
|---|---|---|
| `client` | `PagesAreComplete` | the session implements `PagedRead`: all promised rows, none twice, unless rows before the current page came or went |
| | `SessionEnds` | a client that follows `next` comes to an end |
| `server` | `TypeOK` | |
| | `NumberReturnedIsWritten` | printed before, while or after writing, numberReturned is the number of features |
| | `ReadOnce` | no page is both fetched and streamed |
| | `PageSizeRespectedWhenRead` | never more than COUNT features where the sentinel is dropped, never more than COUNT+1 |
| | `NextAgreesWithMatched` | link and numberMatched of a response do not contradict each other, despite writes |
| | `NumberMatchedIsTotalInside` | the total is right if the page starts inside the result |
| | `AnswersAreStable` | a property does not change its answer within a response |
| `relations` | `RelatedObjectsAreTheRows` | the iterator implements `FeatureStream` |
| | `FoundRelationsAreLoaded` | what prefetching or the cache can load is loaded |
| | `NumberReturnedIsCounted`, `TypeOK` | the count is right |
| `stream` | `NothingIsLostOrRepeated` | sent, yielded and buffered text are together what was written |
| | `TruncationIsTold` | an error status and no text, all features, or a note of the truncation |
| | `DocumentIsWellFormed` | GML, complete or truncated, is well-formed; complete GeoJSON is JSON |
| | `BufferIsBounded` | the buffer does not grow with the number of features |
| | `ResponseEnds`, `TypeOK` | |
| `queries` | `AnswersAreWhatWasAsked` | a query returns the features that satisfy its filter, its identifiers and its type |
| | `FilterRepeatsNoFeature` | none of them twice, unless it sorts by a repeated element |
| | `PermissionsComeFirst` | no query is compiled before all types of all queries are permitted |
| | `AnswerableIsAnswered` | a request without faults is neither refused nor does it crash |
| `requests` | `UnderstoodAsMeant` | in every encoding, and in every next link, a request is parsed as what it means, but for what the links of documents lose (below) |
| | `MeaningIsAnswered` | a request with a meaning gets a document or a report, on every page |
| | `NothingSelectiveIsIgnored` | no FILTER, BBOX or RESOURCEID is dropped on the way to the queries |
| | `HandleIsReported` | a document that fails is reported with its handle |
| | `LastPageIsReached`, `TypeOK` | a client that follows the links comes to an end |
| `projection` | `AnswerHoldsWhatWasAsked` | whatever a renderer adds and removes, the answer has the properties asked for |
| | `NothingIsReadRowByRow` | what is rendered was loaded, with the foreign keys that lead to it, but for those on the way to a list |
| | `AnswerableIsAnswered` | known properties of a usual feature type are rendered |
| | `DocumentsMatchTheirSchema` | DescribeFeatureType describes each element of a document |
| | `CachedIsCurrent`, `TypeOK` | no cached list is stale |
| `axes` | `AxesAsAnnounced` | coordinates are in the order that the name next to them means |
| | `AskedAxesAreGiven` | and in the order that the notation of SRSNAME means |
| | `FilterIsReadAsMeant` | the geometry of a filter reaches the database as it was meant |
| | `UndeclaredIsRefused` | a request is refused exactly for a system that cannot be used |
| | `TypeOK` | a system is only cached under its own name and number |

Four runs end in a counterexample, each of a sentence the repository says of
itself (`findings` in `PROJECT.json` quotes them):

* `link`: the next link of an XML request whose type names have a prefix is
  written in Clark notation, which the server cannot parse
  (`parsers/wfs20/adhoc.py:246`).
* `bounds`: rendered by the database, the envelope of a feature takes in the
  geometries of lists, rendered in Python it does not (`output/gml32.py:636`).
* `flip`: a geometry object that two features share is turned once for each of
  them (`crs.py:412`).
* `bbox`: `BBOX=...,EPSG:4326` is not read as x/y by a site with the legacy
  setting (`parsers/gml/geometries.py:75`).

### Exceptions in the properties

Where a property fails in a known place, the run checks its strongest form that
holds, and the exception is spelled out in the definition.

* Paging. `KeepsPageSize`: GeoJSON and CSV can return COUNT+1 features of a
  collection nobody asked before it is streamed (`output/results.py:107`).
  `NumberMatchedIsTotalInside`: past the end of a result numberMatched is the
  client's STARTINDEX (`output/results.py:219`). GML with several collections
  counts although counting is switched off (`output/gml32.py:253`).
* Relations. `FoundRelationsAreLoaded`: a chunk whose foreign keys all came from
  the cache is not prefetched, so its other relations are read feature by feature
  (`output/iters.py:155`). `PkIsKey`: with a `to_field` the cache returns another
  object (`output/iters.py:171`).
* Streaming. `render_exception()` does not close the tags of a feature that was
  being written (`FailedInFeature`), and closes a sub-collection twice when only
  a legacy note was written since (`FailedAfterNote`), although the comment at
  `output/gml32.py:188` says it will "close any remaining tags". In GeoJSON an
  empty collection among several leaves a stray comma (`output/geojson.py:85`).
* Queries. `AnswersAreWhatWasAsked` has three exceptions in which the code
  returns fewer features, never others, and one in which it returns others.
  `SpelledInTwoWays`:
  `TYPENAMES=place&RESOURCEID=place.2,app:place.4` makes two lookups of one type,
  which are ANDed, so that nothing is found. `OfOneObject`: an And of two
  comparisons of repeated elements wants one related object that satisfies both;
  array fields do not. `NotOfNull`: a Not of a comparison of an expression that is
  NULL excludes the feature, a Not of the same comparison of a column includes it.
  `NotOfJoined`, of which nothing is said: in an And or Or, a comparison of a
  repeated element and after it a Not of one. The first joins the related objects,
  and the Not is then asked of the joined object alone (`operators.py:884` makes
  one Q, `query.py:147` one `filter()`): And(hours = 1, Not(hours = 2)) returns a
  place that has the hours 1 and 2, And(Not(hours = 2), hours = 1) does not.
  `FilterRepeatsNoFeature`: sorting by a repeated element returns a feature once
  for each related object (`parsers/fes20/sorting.py:151`). `Answerable` names
  what ends in an internal error instead of a report: identifiers without a type
  and no TYPENAMES (`feature_types[0]` of an empty list, although
  `operators.py:263` promises "empty results"), identifiers of which some have a
  type and others not (`fix_type_name(None)`), `GetFeatureById` with an ID that
  begins with its dot, and a wrong literal that is compared with an expression
  (the `raise` in `exceptions.py:90` skips the translation below it).
* Requests. Slips mean nothing, so `MeaningIsAnswered` does not promise them a
  report; the model shows which get an internal error: an unknown RESULTTYPE or
  RESOLVE (the enum is subscripted, `parsers/wfs20/requests.py:187`), a missing
  attribute or an element in the wrong place of a document (`views.py:79` catches
  neither), an unresolvable prefix, `service="wfs"` in GetCapabilities
  (`operations/wfs20.py:115`), a negative COUNT, and any parse error that wants
  the handle of a request that does not exist yet (`views.py:207`). A SERVICE that
  is left out is refused, although `views.py:377` gives it a default.
  `RESULTTYPE=hits&COUNT=-1` would page for ever, an empty `<fes:Filter/>` is an
  IndexError (`parsers/fes20/filters.py:136`), a parameter in two spellings keeps
  the old value of the second in the next link (`operations/wfs20.py:387`), and
  prefixes that an element declares are seen by its siblings
  (`parsers/xml.py:190`): no input of the run does these. A link repeats the
  XPaths of a document, but not its prefixes: PROPERTYNAME
  (`parsers/wfs20/base.py:147`), SORTBY (`parsers/fes20/sorting.py:93`) and
  VALUEREFERENCE (`parsers/wfs20/requests.py:415`) with a prefix that only the
  document declares are refused on the next page, or mean another element if the
  server has the prefix too. A parameter that `str()` writes in another way than
  its parser reads is lost likewise (`parsers/wfs20/stored.py:174`).
  `UnderstoodAsMeant` is violated by such a document when it gets a link. So the
  inputs of the run declare prefixes in URLs, whose links keep their NAMESPACES,
  and in documents without a link (with a filter or two queries); the theorem
  names the condition (`Plain`).
* Projection. `FollowedOnce`: several elements for one relation, or dotted
  attributes inside nested ones, are read row by row or crash; so is a dotted
  attribute that ends in the other side of a foreign key, for which that foreign
  key is loaded from the model before it, which may not have it
  (`projection.py:342`). `ListsAreNested`: read row
  by row as well are a relation to many objects that has no sub fields, which is not
  prefetched (`projection.py:267` takes complex elements), and a dotted attribute
  through a reverse relation, which is prefetched without the foreign key that its
  rows are matched by (`projection.py:345` asks the attribute, not the relations
  before it). `Answerable`:
  PROPERTYNAME=gml:boundedBy always fails, `gml:boundedBy` in Python fails when a
  relation on the path of a geometry is null (`types.py:815`), CSV in Python fails
  for a null geometry (`output/csv.py:144`), and so does GeoJSON for a main
  geometry of a relation (`projection.py:164`). `IsOutOfReach`: in Python
  `gml:boundedBy` fails for a geometry below a list, too. `Unwritable`: a relation to
  many objects without sub fields is a list of model instances or, of the other side
  of a foreign key, a manager; GeoJSON has no notation for either
  (`output/geojson.py:26`), and GML cannot iterate the manager
  (`output/gml32.py:322`). The value of an attribute that leads *through* a list is
  always None, since `get_value()` asks the manager for it (`types.py:497`), and of a
  complex element as well: `AnswerHoldsWhatWasAsked` does not expect what is below
  that (`ThroughManager`). `LeavesAreNamed`: a complex element
  that is named without its children is a KeyError. The name of a feature is read
  row by row when its column was not asked for. A dotted name without a
  `model_attribute` is refused when the feature type is bound, although
  `docs/feature_types.rst:131` allows it. `PROPERTYNAME=` is a RuntimeError.
  `WaysToLists`: a foreign key whose only use is to lead to a list is deferred, so
  that following it takes a query for each feature (`projection.py:303`), although
  only M2M fields are to be left out, "because those are not part of the local model
  data" (`projection.py:294`).
  `DocumentsMatchTheirSchema`: two complex fields of one model share a type name,
  and of two different ones only one is described; PROPERTYNAME=@gml:id renders an
  element that no schema has.
* Coordinates. `MeansTheCached`: a bare number means whatever was cached last for
  it (`crs.py:144` says so). `Legacy`: see run `bbox`. GeoJSON announces the system
  of its first collection for all (`output/geojson.py:170`). EWKT in CSV is y/x for
  a north-east system when Python writes it and x/y from the database.

### Bounds

* Paging: two collections, tables of 0, 1, 2 and 3 rows with gaps (a writer can
  insert before, between and behind), COUNT 0 to 2, STARTINDEX -1, 0, 1 and 3
  (before, at, inside, past the end), all formats and counting modes, one write
  per behaviour (`MaxWrites`). A page, its sentinel and a row behind it are three
  rows; what two collections can do to each other (`any`, `all`, sums) needs two.
  The two runs share the work: `client` takes what can be paged, `server` the rest.
* Prefetching: two foreign keys, so that one can be restored while the other is
  not, a one-to-one relation and one to many; chunks of four with caches of two
  and three keys, so that a chunk evicts what it stored; results of no rows, one
  full chunk, and a second chunk of one or two features; one write, at any moment.
* Streaming: one to three collections of up to two features (an empty one first,
  in the middle, last), one of six; chunk sizes that flush after every feature,
  sometimes, and hardly ever. Every failure at every place.
* Queries: three types (one denied) and an unknown one, two spellings; every set
  of up to three out of ten identifiers; every comparison with every kind of
  element in both directions; And, Or and Not over pairs and triples, Not at
  every depth; features with no, one and two related objects and with NULLs; two
  queries where one could disturb the other.
* Requests: three types (one denied) with 2 and 3 features and pages of 2, so that
  a session has one or two pages; one and two queries; COUNT absent, 0, 1 and 3;
  every operation; one prefix known to the server, two declared by the client (one
  for a namespace of its own, one for the server's), one unknown; one element that
  the types have; a stored query with and one without a parameter that `str()`
  rewrites. All inputs are enumerated, no state is cut off.
* Projection: twenty feature types over five models, one for each way to
  configure fields (nested, flattened, both, nested twice, below lists, lists
  below a relation, lists without sub fields, through and at the end of managers,
  geometries below a list, one type below two others, `__all__`,
  not at all, wrongly), each format, both ways of rendering, and every pair of
  property names. Nesting is two levels deep: `Absolute`, `Front` and the prefetch
  order have no third case.
* Coordinates: three systems (one with 4326's two authorities, one other with its
  north axis first, one without); up to two declared systems in any order and two
  that may be cached; two features, so that one can be rendered after another.
  Sites with `GISSERVER_FORCE_XY_EPSG_4326` but not `GISSERVER_FORCE_XY_OLD_CRS`
  are left out: they announce `epsg.xml#4326` as x/y, which they do not read so
  themselves.
* `CHECK_DEADLOCK FALSE` where a session, a response or a request ends without
  a stuttering step of its own.

### Fairness

* `WF_vars(Server)` of `GetFeaturePaging` and `RequestDispatch`,
  `WF_vars(Iterate)`, `WF_vars(Render \/ HandOver \/ Send)`, `WF_vars(Next)` of
  `QueryCompiler`: a WSGI worker runs one request until its response is exhausted
  or closed; no step of it waits for another request. Which of the enabled steps
  it takes is determined by the program, so weak fairness of their disjunction is
  all that is assumed. Failing, leaving, closing and writing are never forced.
* `WF_vars(Client)`, in the two `PatientSpec` only: a client that wants the whole
  result follows the links. It is an assumption on the client, not on the code.
* Liveness is checked of `GetFeaturePaging`, `StreamResponse` and
  `RequestDispatch`. The other modules have safety properties only: a projection,
  a compiler and a list of coordinates have no loop that could fail to end.

## What is proved

| Theorem | Property | Rests on |
|---|---|---|
| `GetFeaturePagingProofs!TypeCorrect` | `TypeOK` | `TypeInv` |
| `GetFeaturePagingProofs!ResultsAreReadOnce`, `NumberReturnedIsCorrect` | `ReadOnce`, `NumberReturnedIsWritten` | `ReadInv` |
| `GetFeaturePagingProofs!PageSizeIsRespected` | `PageSizeRespectedWhenRead` | `SizeInv` |
| `GetFeaturePagesProofs!AnswersDoNotChange` | `AnswersAreStable` | `ReadInv`, `SizeInv` |
| `GetFeaturePagesProofs!LinkAgreesWithNumber` | `NextAgreesWithMatched` | `LinkInv`, `ReadInv` |
| `GetFeaturePagesProofs!NumberMatchedIsCorrect` | `NumberMatchedIsTotalInside` | `TotalInv`, `LinkInv` |
| `GetFeaturePagesProofs!PagingImplementsPagedRead` | `PagesAreComplete` | `PagesInv`, all the others |
| `PrefetchCacheProofs!TypeCorrect`, `NumberReturnedIsRight` | `TypeOK`, `NumberReturnedIsCounted` | `Loops`, `Counting` |
| `PrefetchCacheProofs!InstancesAreCorrect` | `CorrectInstances` | `ObjectInv`, `PkIsKey` |
| `PrefetchCacheProofs!StreamIsImplemented` | `RelatedObjectsAreTheRows` | the same, `Counting` |
| `PrefetchCacheProofs!FoundIsLoaded` | `FoundRelationsAreLoaded` | `Loading` |
| `StreamResponseProofs!TypeCorrect`, `TextIsPreserved`, `MemoryIsBounded` | `TypeOK`, `NothingIsLostOrRepeated`, `BufferIsBounded` | `Positions`, `Bounds` |
| `StreamResponseProofs!ResponsesTellWhatIsMissing` | `TruncationIsTold` | `FeaturesInv`, `StatusInv` |
| `StreamResponseProofs!DocumentsAreWellFormed` | `DocumentIsWellFormed` | `JsonInv`, `XmlInv`, `StatusInv` |
| `QueryCompilerProofs!PermissionsAreChecked` | `PermissionsComeFirst` | `Bound` |
| `QueryCompilerProofs!DistinctIsEnforced` | `FilterRepeatsNoFeature` | `Compiled`, `DistinctInv` |
| `QueryCompilerProofs!NothingIsLeftBehind` | `AnswerableIsAnswered` | `Compiled`, `AnswerableInv` |
| `QueryCompilerProofs!QueriesAnswerWhatWasAsked` | `AnswersAreWhatWasAsked` | `AnswersInv`, all the others |
| `RequestDispatchProofs!TypeCorrect` | `TypeOK` | |
| `RequestDispatchProofs!FailuresNameTheirHandle` | `HandleIsReported` | `HandleInv` |
| `RequestDispatchProofs!SelectionIsRespected` | `NothingSelectiveIsIgnored` | `Course`, `Selection` |
| `RequestDispatchProofs!LinksKeepTheMeaning` | `UnderstoodAsMeant` | `Course`, `Meaning` |
| `RequestDispatchProofs!NoPageEndsInAnError` | `MeaningIsAnswered` | `Meaning`, `Answering` |
| `FeatureProjectionProofs!TypeCorrectness` | `TypeOK` | `TypeInv`, `Shape` |
| `FeatureProjectionProofs!AnswerIsWhatWasAsked` | `AnswerHoldsWhatWasAsked` | `Shape` (`ShapeAlways`) |
| `FeatureProjectionProofs!SchemaIsMatched` | `DocumentsMatchTheirSchema` | `Shape`, `TypesAreFound` |
| `FeatureProjectionProofs!CacheIsCurrent` | `CachedIsCurrent` | `Current` |
| `FeatureProjectionProofs!AnswerableAnswered` | `AnswerableIsAnswered` | `Answering`: `Shape`, `Ordered`, `LoadedInv` |
| `FeatureProjectionProofs!NothingReadRowByRow` | `NothingIsReadRowByRow` | `Reading`: the same, `Remembered` |
| `CoordinateSystemsProofs!TypesAreRight` | `TypeOK` | `Resolution`, `Rendered` |
| `CoordinateSystemsProofs!OnlyUndeclaredIsRefused` | `UndeclaredIsRefused` | `Resolution` |
| `CoordinateSystemsProofs!FilterReachesDatabaseAsMeant` | `FilterIsReadAsMeant` | `Resolution`, `ConsistentSites` |
| `CoordinateSystemsProofs!WrittenAxesAreAnnounced`, `AskedAxesAreWritten` | `AxesAsAnnounced`, `AskedAxesAreGiven` | `Announced`, `Unshared`, `ConsistentSites` |

The assumptions are the named `ASSUME`s of each component's module (types of the
constants, `ChunkSize >= 2`, a page has at least one collection; of requests, that
a parameter has a text, that the children of a document are a list, and that a
handle is a text; of queries, what `IsQuery` says; of feature types, what
`IsConfiguration` says: the fields of a class body are listed with each sub field
after the field that it is in, their names are not those of GML, the fields of a
model are finitely many, and the model is a known one; of models, `ModelAssumption`,
what Django makes sure of: each has a primary key, a relation leads to a model, and a
reverse relation knows the foreign key that is its other side), which TLC evaluates
in every run, and for some theorems a hypothesis that they state:

* `CanBePaged`, of `PagingImplementsPagedRead`: the pages of a response link to
  each other, and one ends where the next begins. CSV prints no link, and GeoJSON
  streams its second collection with the sentinel row, which is on the next page
  again; both are admitted when they answer with everything at once. The run
  `client` uses the same requests.
* `FirstPagesAreUnderstood`, of `LinksKeepTheMeaning`: what a client says *first* is
  read as what it means. Of a URL: it is read without a fault, and names the page
  once (`count` and `COUNT` in one URL are two parameters, of which a link changes
  the first and the parser reads the last). Of a document: it is read without a
  fault, comes without a query string, and if it gets links, as_kvp() can write it,
  which is so (`Plain`) when its types have no namespace (the run `link` shows what
  happens otherwise), its XPaths mean the same by the prefixes that the server knows,
  and its system and its parameters are read back from what `str()` writes. That the
  pages after it are understood is the theorem.
* `FirstPagesAreAnswerable`, of `NoPageEndsInAnError`: each query has a type or
  identifiers, or the identifier of its stored query names a type by a known prefix,
  or no type at all; no count is negative; GetCapabilities has the service in capitals.
* `TokensDiffer`, `ParametersAreNew`, `NoDefaultNamespace`, of the same two: an absent
  text, an empty one and an unreadable one are no numbers; stored queries have no
  parameter that WFS has; the prefixes a site knows do not include the empty one,
  unless for WFS. TLC evaluates these, and the two above for every input of the run
  `requests`, as `MCRequestDispatch!MeaningAssumption`.
* `NoneIsNoValue`: Python's `None` is not a request, a document, an XPath or an
  exception.
  The models write `None` as a model value, of which TLA+ knows nothing.
* `ParametersAreOwn`: no registered query has a parameter called FILTER, BBOX or
  RESOURCEID, which would be an argument of its template and select nothing
  itself; and none has infinitely many parameters.
* `PkIsKey`: no foreign key has a `to_field`.
* `Unshared`: no two features share a geometry object. Run `flip` is the same
  specification without it, and ends in a counterexample.
* `ConsistentSites`: who reads EPSG:4326 as x/y also reads the older names so.

The inductive invariants:

* `TypeInv` of paging adds that a link is only written when the page has an end:
  without it `Start + Count` could be `math.inf`.
* `ReadInv` says for each collection whether it is not yet, just or already
  written (`NotYet`, `Done`), and what `body` is then: nothing, what the iterator
  returned, or the cache. `NumberReturnedIsWritten` alone is not inductive:
  GML prints the size of a cache that is written later, so the cache must be known
  not to change, and to be what is written. That nothing is read twice follows
  because `FetchResults` needs a property that has no answer, and an open
  iterator answers all of them.
* `SizeInv` bounds what an iterator has returned plus what it still holds by
  COUNT+1, and says that the first collection was read when the links were
  written, which is why a single query never streams its sentinel.
* `AnswersAreStable` follows from `ReadInv` and `SizeInv`: a step reads for one
  collection, and only what has no answer yet (`OneCollectionAtATime`,
  `CountsUnknownNumber`).
* `LinkInv` says what a decided link rests on: with a link, some collection has a
  COUNT beyond the page; without, each has a short page or a COUNT within it. The
  number is printed later, from the same facts. Before the decision a COUNT is only
  made for a full page (`CountedFullPage`), or it could contradict a short one.
* `TotalInv` is about a response during which nobody writes: each COUNT is the size
  of the table, each page without a sentinel is all that the table has there, and
  an iterator has returned what it no longer holds. A number that is not counted
  but computed (`start + number_returned` of a short page) is right for all three
  reasons; with fewer, one order of reading breaks it.
* `PagesInv` is the refinement of `PagedRead`. Per collection that nobody
  disturbed: the pages before this one cover the table up to `Start`, what is
  cached or streamed covers this page (`Covers`, from both sides), and whatever
  makes a page the last one - a short page, no sentinel, a COUNT within it -
  means that what was promised ends there (`LastPage`). Rows that are appended
  meanwhile sort behind all others, so the slices below them do not move
  (`SliceAfterAppend`).
* In `PrefetchCache`, `Loops` and `Counting` tie the loop index, the chunk and the
  count of rendered features together; `ObjectInv` says that whatever is in the
  cache under primary key `k`, and whatever is loaded for a row, is something key
  `k` led to since the iteration began. Cached objects outlive their chunk and the
  table changes, so this has to be said of the past, not of the present.
* `Loading` follows a chunk through its two ways of getting related objects: either
  every relation was prefetched for every instance, or every instance was restored
  as far as its key goes and a foreign key's cache has entries (`RestoredChunk`).
  Without the second part a chunk with nothing to restore would count as restored.
* In `StreamResponse`, what was sent and yielded and the buffer *are* `document`;
  that a chunk waits only while the generator does not run (`Positions`) makes
  every step keep it. `Bounds` follows the length of the buffer through the
  places where it is not looked at.
* `FeaturesInv` says which features `document` holds, by where the generator is
  (`Written`); that the client has a beginning of them follows, since what was sent
  is a beginning of `document`. `StatusInv` ties the status and the exception to it:
  a status of its own means that nothing was sent.
* `JsonInv` follows the parity of the document: at an even length it ends in a
  feature. `XmlInv` follows the tags that are open (`OpenTags`, a recursive
  function over the text), and what the end of the buffer tells
  `render_exception()` about them: a collection that was closed is seen there
  because nothing is flushed between collections, unless a note came after it.
* `Bound` counts: while requests are bound, exactly the queries before `at` have
  types, none of them denied; so all have when the phase changes.
* `Compiled` ties the node to the Q objects that were built, and says that a compiler
  has the ordering of its query, and lookups only from identifiers. `DistinctInv`:
  a Q object that joins made the compiler distinct, through every And, Or and Not,
  and copies of a feature that are compared without a joined column are one.
* `AnswerableInv` says that an answerable query has exactly one type, which is the one
  of its identifiers (`OneType`), and that a Q object whose literal was never
  prepared comes from an unchecked literal (`Prepared`): no action that stops a
  query is enabled (`AnswerableIsNotStopped`).
* What a Q object is depends on what was joined before it; the invariant would have
  to say both. `LogicFits` shows that, unless `NotOfJoined` holds, the Q of each node
  is in its place in the filter the one that has its negated lookups about all
  related objects (`Apart`), which does not depend on that, and `LastIsApart` that the
  query gets this one. `ReachedGrows` and `OperandIsOutside` say which operands of a
  node are in such a place when the node is.
* `AnswersInv` follows these node by node (`Agree`), for every feature and every
  assignment of truths to the nodes built so far. The rows of a Q object are true
  ones (`Sound`); and unless one of the named exceptions applies, a true node has
  every row in its subquery, a false one that is negated later every row in its
  negation, and a true one outside every Not some row (`Exhaustive`). For an And the
  last is not inductive, since its operands may be true for different related
  objects. `OneRow` adds what makes it so: with at most one comparison of repeated
  elements, one related object is good for all nodes at once. `TruthExists` builds
  the assignment along with the nodes, so that no induction over filters is needed.
  The leaves are `ComparisonIsSatisfied`: what the turned and mapped lookups of one
  comparison make of the values of an element is what the comparison says.
* `HandleInv` says that a document on its way came from a client, and that what was
  parsed of it has its handle and no fault (`Handled`): so a later failure reports
  the handle of the request, an earlier one that of the document.
* `Course` says that `kvp`, `request` and the next link are what the HTTP request
  was parsed into, without a fault; `Selection`, that URLs and links are well
  written. That a FILTER, BBOX or RESOURCEID in the URL is in each query then
  follows from the parser, operator by operator: a query that leaves one out has a
  fault (`QueriesAreRestricted`), and a next link has the selection of its request.
* `Meaning` says that the HTTP request on its way `Says` what is meant, in the form
  that its pages keep: its parameters or its document are read without a fault as
  that request. `UnderstoodAsMeant` alone says nothing of a link that was not
  parsed yet. A link from a URL has the same parameters but for the page
  (`LinkParameters`), and parameters that are alike are read alike (`SameReading`,
  `SameQueries`: the page is told once, so it does not group the others). A link from
  a document is the parameters that as_kvp() writes (`Lists`), and reading them
  gives back each field and the query (`RequestIsReadBack`, `AdhocIsReadBack`,
  `StoredIsReadBack`, together `DocumentAsUrl`).
* `Answering` adds that what is meant stays answerable: a next page is of the same
  types and not of negative size; and that a request which was validated has types
  in each query (`HaveTypes`), whatever its XPaths are. No check of
  `validate_request()` and `process_request()` then ends in an internal error
  (`Internal`): an XPath of an unknown prefix or element is refused, with a report
  (`ResolvesOrRefuses`).
* `Shape` says which elements `roots`, `keys` and `children` hold, as sets: what was
  chosen (`Chosen`: the nodes of the property names, or all elements), with the
  geometry that `add_field()` added (`IsExtra`), without what `remove_fields()` took
  away (`Shown`). `AnswerHoldsWhatWasAsked` alone says nothing before the end. Of the
  keys it says less, because `remove_fields()` does not look below what it removed:
  a key that is left may be of an element that is not shown, but every element that
  is shown and has something below it is still a key (`KeysHold`); that is all that
  the answer needs. What leads to an element that can be named is complex
  (`ResolvableParts`), so no leaf is lost because another one was named below it.
* `TypesAreFound` is about the breadth first search of DescribeFeatureType, a recursive
  function over levels (`IsWalk`): each complex element has a type of its name that
  was found at its level or above. If it was not walked itself, one of the same name
  was, whose elements are alike, so its children have types that were found too.
* `Answering` of the projection follows an answerable request to its end. `Ordered`:
  a key comes after those that lead to it, through everything that adds and removes
  keys; the order in which relations are prefetched follows (`ParentsFirst`,
  `NoneIsTooLate`), and Django refuses no lookup because it came too late.
  `LoadedInv`: after `decorate_queryset()`, relations, columns and annotations are
  the ones that the projection asks for, and none of its failures was met.
  `LoadedAreKnown` says that what is loaded exists, as each name of an attribute is a
  field of the model before it (`LeadsStep`).
* `Reading` adds that the geometry of GeoJSON stays remembered from `add_field()` on
  (`Remembered`), or `only()` would not load it, and then says of each attribute
  that rendering follows that it `IsReached`: each relation on the way to it was
  fetched, the foreign key for that was loaded, and the column at its end was. The
  lemmas go by what an attribute is: a column of the feature (`OwnValue`), a dotted
  attribute (`DottedValue`), one of a nested object (`NestedValue`), an object on the
  way (`ObjectIsReached`), a geometry for the envelope (`GeometriesOfBoundedBy`).
  `FollowedOnce` is needed because a second element for a relation replaces what
  the first one loads there.
* `Current` adds to `CachedIsCurrent` that nothing is cached or restored before
  the projection exists: `extra` may only grow where the cache is dropped or empty.
* `Resolution` follows the names of systems through a request. `Caches` says that a
  system is cached only under its own name and number, and 4326 under no number;
  `Configured`, `IsParsed` and `IsResolved` say of each phase which system the
  texts of the request stand for, and that it is declared where it has to be.
  None of the five properties is inductive without it: what is written last
  depends on a text that was parsed first, and on what was cached before that.
* `Rendered` counts what was written, turn by turn; `Announced` adds that a
  geometry which is not rendered yet is as it was stored, and that everything
  written is in the order of its name. The first half is what `Unshared` is for.

What a recursive function computes is proved by induction over a set of numbers
(`StreamResponseProofs!Induction`, from the least element of a set in
`WellFoundedInduction`), not over a predicate: `RunExists` shows that `OpenTags` is
defined for every text, `OpenTagsOfMore` what one more token does to it. In the same
way `FeatureProjectionProofs` shows what `FlattenSeq` holds (`Flattening`), on which
`Only` and `WithoutRepeats` rest, what `DescribedTypes` finds, and that
`RemovedKeys` are elements that the format does not show.

Every invariant of a passing run is the statement of a theorem. Only model-checked
are the liveness properties (`SessionEnds`, `ResponseEnds`, `LastPageIsReached`): they
rest on fairness and ENABLED, which are beyond the prover. What the runs that end in
a counterexample show is about their own inputs.

## Not modelled

* `extensions/functions.py`: a registry of SQL functions. What they compute is the
  database's; the compiler's part, one annotation for each expression, is modelled
  with `fes:Add`.
* `conf.py`: settings are constants of the models. They are overridden in tests
  only, by a signal of Django's test runner: a server never takes those steps.
* Capabilities templates, template tags, `loadgeojson`, `compat.py`: text, a
  one-way import in one transaction, and version checks; no state of the server.
* LIKE, distance and temporal operators, GML syntax, data types, escaping: pure
  translations of single values, which the test suite compares with expected text.

## Plan

Done, in this order: paging, related objects, streaming, the compiler, request
parsing and dispatch, projection and schema, coordinate systems. Left:

1. The compiler's remaining operators (LIKE, temporal, distance) and the hooks that
   property names and value references leave in a query.
2. The projection of `GetPropertyValue` and its empty values.
3. Several queries with a system of their own in `CoordinateSystems`.
4. Proofs about 2 and 3, once they are modelled.
