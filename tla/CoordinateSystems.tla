-------------------------- MODULE CoordinateSystems --------------------------
(***************************************************************************)
(* Coordinate reference systems (crs.py, geometries.py, the geometries of  *)
(* parsers/gml) and the order of the two axes: what a client means with    *)
(* the name of a system, what the server makes of it, and in which order   *)
(* the coordinates of a filter and of the rendered features come out.      *)
(*                                                                         *)
(* A notation is the text that names a system, [form, srid]; its form is   *)
(* "srid" (28992), "urn" (urn:ogc:def:crs:EPSG::28992), "crs84" (the URN   *)
(* of CRS84), "short" (EPSG:28992), "xml" (.../gml/srs/epsg.xml#28992),    *)
(* "def" (.../def/crs/epsg/0/28992) or "other".  A geometry is its srid,   *)
(* the order its coordinates are really in, and the order the program has  *)
(* tagged it with ("TRADITIONAL", "AUTHORITY", or "none").                 *)
(***************************************************************************)
EXTENDS Naturals, Sequences

CONSTANTS
    Sites,      \* configurations: the settings and the storage of a server
    Declarable, \* notations that a site may declare systems with
    Registrable, \* notations of the systems that a site may cache
    Requests,   \* what a client asks for: [srs, box, crs, format]
    NorthEast,  \* the srids whose authority puts the north axis first
    Number,     \* features in a response
    PlaceOf,    \* the object that holds the geometry of the i-th feature
    MaxDeclared \* bound: systems that a site declares for its feature type

NoNotation == [form |-> "none", srid |-> 0]
Forms == {"srid", "urn", "crs84", "short", "xml", "def", "other"}
Notations == {n \in [form : Forms, srid : Nat] : n.form = "crs84" => n.srid = 4326}

ASSUME SystemsAssumption ==
    /\ Number \in Nat /\ MaxDeclared \in Nat
    /\ DOMAIN PlaceOf = 1..Number
    /\ Declarable \cup Registrable \subseteq Notations
    /\ \A s \in Sites : s.storage \in Nat /\ s.forceEpsg4326 \in BOOLEAN /\ s.forceOldCrs \in BOOLEAN
    /\ \A r \in Requests :
          /\ {r.srs, r.crs} \subseteq Notations \cup {NoNotation}
          /\ r.format \in {"gml", "geojson", "csv"}
          /\ r.box \in {"none", "kvp", "xml"}
          \* A KVP BBOX may leave out the system, a GML geometry may not.
          /\ r.box = "none" => r.crs = NoNotation
          /\ r.box = "xml" => r.crs # NoNotation

VARIABLES
    site,      \* the settings of this server
    byName,    \* _COMMON_CRS_BY_STR
    bySrid,    \* _COMMON_CRS_BY_SRID
    declared,  \* FeatureType.supported_crs
    phase,
    request,   \* [srs, box, crs, format]: what the client asks for
    output,    \* FeatureProjection.output_crs
    box,       \* the geometry of the BBOX filter as the database gets it
    places,    \* the geometries of the model instances
    written    \* the geometries in the response

vars == <<site, byName, bySrid, declared, phase, request, output, box, places, written>>

-----------------------------------------------------------------------------
(* CRS *)
EPSG(srid, forceXy) == [authority |-> "EPSG", srid |-> srid, forceXy |-> forceXy]
CRS84 == [authority |-> "OGC", srid |-> 4326, forceXy |-> FALSE]
WGS84 == EPSG(4326, FALSE)
Unknown == [authority |-> "none", srid |-> 0, forceXy |-> FALSE]

(* CRS.__str__ *)
Name(crs) ==
    CASE crs.forceXy            -> [form |-> "xml", srid |-> crs.srid]
      [] crs.authority = "OGC"  -> [form |-> "crs84", srid |-> crs.srid]
      [] OTHER                  -> [form |-> "urn", srid |-> crs.srid]

(* CRS.from_srid *)
FromSrid(srid) == IF srid \in DOMAIN bySrid THEN bySrid[srid] ELSE EPSG(srid, FALSE)

(* Which notations the settings make the server read as x/y.               *)
ForceXy(n) ==
    \/ n.form = "short" /\ n.srid = 4326 /\ site.forceEpsg4326
    \/ n.form = "xml" /\ site.forceOldCrs

(* CRS.from_string *)
FromString(n) ==
    IF n \in DOMAIN byName THEN byName[n]
    ELSE CASE n.form = "srid"                    -> FromSrid(n.srid)
           [] n.form = "urn"                     -> EPSG(n.srid, FALSE)
           [] n.form = "crs84"                   -> CRS84
           [] n.form \in {"short", "xml", "def"} -> EPSG(n.srid, ForceXy(n))
           [] n.form = "other"                   -> Unknown

(* CRS.cache_instance *)
Cached(f, key, crs) == [k \in DOMAIN f \cup {key} |-> IF k = key THEN crs ELSE f[k]]
(* Mutation: CRS84 and the legacy notation of WGS84 take the number too.   *)
CacheInstance_AnySrid(crs) ==
    /\ byName' = Cached(byName, Name(crs), crs)
    /\ bySrid' = Cached(bySrid, crs.srid, crs)

CacheInstance(crs) ==
    /\ byName' = Cached(byName, Name(crs), crs)
    /\ bySrid' = IF crs.authority = "EPSG" /\ crs.srid # 4326
                 THEN Cached(bySrid, crs.srid, crs) ELSE bySrid

(* CRS.matches and CRS.__eq__ *)
SameSystem(a, b) == a.srid = b.srid /\ a.authority = b.authority
Equal(a, b) == SameSystem(a, b) /\ a.forceXy = b.forceXy

(* CRS.is_north_east_order *)
IsNorthEast(crs) == crs.authority = "EPSG" /\ crs.srid \in NorthEast

(* FeatureType.resolve_crs: the declared system, or the client's if only   *)
(* one of the two is written in a legacy notation.                         *)
(* Mutation: the list is searched with CRS.__eq__.                         *)
ResolveCrs_Equal(crs) ==
    IF \E k \in DOMAIN declared : Equal(declared[k], crs) THEN crs
    ELSE IF site.supportedOnly THEN Unknown ELSE crs

(* Mutation: the declared system also replaces a legacy notation.          *)
ResolveCrs_Declared(crs) ==
    LET same == {k \in DOMAIN declared : SameSystem(declared[k], crs)}
        first == CHOOSE k \in same : \A l \in same : k <= l
    IN  IF same # {} THEN declared[first]
        ELSE IF site.supportedOnly THEN Unknown ELSE crs

ResolveCrs(crs) ==
    LET same == {k \in DOMAIN declared : SameSystem(declared[k], crs)}
        first == CHOOSE k \in same : \A l \in same : k <= l
    IN  IF same # {} THEN IF declared[first].forceXy # crs.forceXy THEN crs ELSE declared[first]
        ELSE IF site.supportedOnly THEN Unknown ELSE crs

-----------------------------------------------------------------------------
(* Geometries *)
Geometry(srid, order, tag) == [srid |-> srid, order |-> order, tag |-> tag]
Other(order) == IF order = "xy" THEN "yx" ELSE "xy"
Tagged(g) == IF g.tag = "none" THEN "TRADITIONAL" ELSE g.tag

(* The order in which PROJ reads or writes the coordinates of a system.    *)
PhysicalOrder(northEast, axisOrder) ==
    IF axisOrder = "AUTHORITY" /\ northEast THEN "yx" ELSE "xy"

(* CoordTransform: the coordinates are taken for what the source says, and *)
(* come out swapped when they were not in that order.                      *)
Transformed(g, crs, sourceOrder, axisOrder) ==
    LET read  == PhysicalOrder(g.srid \in NorthEast, sourceOrder)
        wrote == PhysicalOrder(IsNorthEast(crs), axisOrder)
    IN  [g EXCEPT !.srid = crs.srid, !.order = IF read = g.order THEN wrote ELSE Other(wrote)]

DefaultAxisOrder(crs) == IF crs.forceXy THEN "TRADITIONAL" ELSE "AUTHORITY"

(* CRS.apply_to a GEOS geometry.  A copy is tagged with its new order, a   *)
(* geometry that is changed in place keeps the tag it had.                 *)
ApplyTo(g, crs, axisOrder, clone) ==
    IF crs.srid = g.srid /\ Tagged(g) = axisOrder
    THEN IF clone THEN [g EXCEPT !.tag = "none"] ELSE g
    ELSE LET t == Transformed(g, crs, Tagged(g), axisOrder)
         IN  IF clone THEN [t EXCEPT !.tag = axisOrder] ELSE t

(* CRS.apply_to an OGR copy, for the extent in BoundingBox.from_geometries.*)
(* Mutation: the axes of the authority, also for a legacy notation.        *)
ApplyToOgr_Authority(g, crs) == Transformed(g, crs, "TRADITIONAL", "AUTHORITY")
ApplyToOgr(g, crs) == Transformed(g, crs, "TRADITIONAL", DefaultAxisOrder(crs))

(* The database has no axis order: ST_Transform keeps x/y, ST_AsGML swaps  *)
(* when the renderer says "is_latlon".                                     *)
DatabaseGmlOrder(crs) == IF ~crs.forceXy /\ IsNorthEast(crs) THEN "yx" ELSE "xy"

(* ST_AsGML writes "EPSG:n", or a URN of EPSG if "long_urn" is given;      *)
(* _fix_db_crs_name replaces what is wrong in it.                          *)
DatabaseGmlName(crs) ==
    CASE crs.forceXy       -> [form |-> "xml", srid |-> crs.srid]
      [] Equal(crs, CRS84) -> [form |-> "crs84", srid |-> crs.srid]
      [] OTHER             -> [form |-> "urn", srid |-> crs.srid]

-----------------------------------------------------------------------------
(* The site: systems are put in the module's caches, and declared for a    *)
(* feature type.  Three are cached when the module is imported.            *)
Common == {WGS84, CRS84, EPSG(3857, FALSE)}
NoBox == [crs |-> Unknown, geometry |-> Geometry(0, "xy", "none")]
NoRequest == [srs |-> NoNotation, box |-> "none", crs |-> NoNotation, format |-> "gml"]
Stored == Geometry(site.storage, "xy", "none")

Init ==
    /\ site \in Sites
    /\ byName = [n \in {Name(c) : c \in Common} |-> CHOOSE c \in Common : Name(c) = n]
    /\ bySrid = [s \in {3857} |-> EPSG(3857, FALSE)]
    /\ declared = <<>>
    /\ phase = "configure"
    /\ request = NoRequest
    /\ output = Unknown
    /\ box = NoBox
    /\ places = [p \in {PlaceOf[i] : i \in 1..Number} |-> Stored]
    /\ written = <<>>

(* CRS.from_string(...).cache_instance() in the code of a site.            *)
Register(n) ==
    /\ phase = "configure"
    /\ declared = <<>>
    /\ FromString(n) # Unknown
    /\ CacheInstance(FromString(n))
    /\ UNCHANGED <<site, declared, phase, request, output, box, places, written>>

(* FeatureType(crs=..., other_crs=[...])                                   *)
Declare(n) ==
    /\ phase = "configure"
    /\ Len(declared) < MaxDeclared
    /\ FromString(n) # Unknown
    /\ declared' = Append(declared, FromString(n))
    /\ UNCHANGED <<site, byName, bySrid, phase, request, output, box, places, written>>

(* FeatureType.crs and supported_crs, on first use: without a crs the      *)
(* default is the system of the geometry field.                            *)
Serve ==
    /\ phase = "configure"
    /\ site.ownCrs => declared # <<>>
    /\ declared' = IF site.ownCrs THEN declared ELSE <<FromSrid(site.storage)>> \o declared
    /\ phase' = "receive"
    /\ UNCHANGED <<site, byName, bySrid, request, output, box, places, written>>

-----------------------------------------------------------------------------
(* What the documentation says a notation means (docs/troubleshooting.rst, *)
(* "Axis Order Interpretation"; docs/compliance.rst).                      *)
MeantOrder(n) ==
    IF \/ n.form = "short" /\ n.srid = 4326 /\ site.forceEpsg4326
       \/ n.form = "xml" /\ site.forceOldCrs
       \/ n.form = "crs84"
       \/ n.srid \notin NorthEast
    THEN "xy" ELSE "yx"
MeantAuthority(n) == IF n.form = "crs84" THEN "OGC" ELSE "EPSG"

(* The system of the coordinates that the client puts in its BBOX.         *)
MeantByBox(r) == IF r.crs = NoNotation THEN Name(declared[1]) ELSE r.crs

Receive(r) ==
    /\ phase = "receive"
    /\ request' = r
    /\ phase' = "parse"
    /\ UNCHANGED <<site, byName, bySrid, declared, output, box, places, written>>

(* GEOSGMLGeometry.from_bbox and from_xml: how the geometry is tagged.     *)
(* Mutation: a GML geometry is tagged whatever its srsName says.           *)
BoxTag_Always(crs) == "AUTHORITY"
BoxTag(crs) == IF request.box = "xml" /\ crs.forceXy THEN "none" ELSE "AUTHORITY"

(* AdhocQuery.from_kvp / from_xml, with the filter's geometry.             *)
Parse ==
    /\ phase = "parse"
    /\ LET srs == IF request.srs = NoNotation THEN Unknown ELSE FromString(request.srs)
           crs == IF request.crs = NoNotation THEN Unknown ELSE FromString(request.crs)
       IN  /\ output' = srs
           /\ box' = IF request.box = "none" THEN NoBox
                     ELSE [crs |-> crs,
                           geometry |-> Geometry(crs.srid, MeantOrder(MeantByBox(request)), BoxTag(crs))]
           /\ phase' = IF \/ request.srs # NoNotation /\ srs = Unknown
                          \/ request.crs # NoNotation /\ crs = Unknown
                       THEN "refused" ELSE "bind"
    /\ UNCHANGED <<site, byName, bySrid, declared, request, places, written>>

(* AdhocQuery.bind resolves srsName; the projection takes the default.     *)
Bind ==
    /\ phase = "bind"
    /\ output' = IF request.srs = NoNotation THEN declared[1] ELSE ResolveCrs(output)
    /\ phase' = IF output' = Unknown THEN "refused" ELSE "filter"
    /\ UNCHANGED <<site, byName, bySrid, declared, request, box, places, written>>

(* GEOSGMLGeometry.build_rhs *)
BuildFilter ==
    /\ phase = "filter"
    /\ LET crs == IF box.crs = Unknown THEN declared[1] ELSE ResolveCrs(box.crs)
           g   == IF box.crs = Unknown THEN [box.geometry EXCEPT !.srid = crs.srid] ELSE box.geometry
       IN  IF request.box = "none" THEN phase' = "query" /\ UNCHANGED box
           ELSE /\ phase' = IF crs = Unknown THEN "refused" ELSE "query"
                /\ box' = [crs |-> crs,
                           geometry |-> IF IsNorthEast(crs) THEN ApplyTo(g, crs, "TRADITIONAL", TRUE) ELSE g]
    /\ UNCHANGED <<site, byName, bySrid, declared, request, output, places, written>>

(* decorate_queryset: GeoJSON writes WGS84 as CRS84.                       *)
Query ==
    /\ phase = "query"
    /\ output' = IF request.format = "geojson" /\ Equal(output, WGS84) THEN CRS84 ELSE output
    /\ places' = [p \in DOMAIN places |-> Stored]
    /\ phase' = IF Number = 0 THEN "answered" ELSE "render"
    /\ UNCHANGED <<site, byName, bySrid, declared, request, box, written>>

-----------------------------------------------------------------------------
(* Rendering: for each feature the envelope (GML only), then its geometry. *)
PerFeature == IF request.format = "gml" THEN <<"envelope", "geometry">> ELSE <<"geometry">>
Turn == [place |-> PlaceOf[(Len(written) \div Len(PerFeature)) + 1],
         kind  |-> PerFeature[(Len(written) % Len(PerFeature)) + 1]]

Write(name, order) ==
    /\ written' = Append(written, [kind |-> Turn.kind, name |-> name, order |-> order])
    /\ phase' = IF Len(written') = Number * Len(PerFeature) THEN "answered" ELSE "render"

(* GmlBoundedByElement.get_value, render_gml_bounds                        *)
RenderEnvelope ==
    /\ phase = "render" /\ ~site.dbRendering
    /\ Turn.kind = "envelope"
    /\ Write(Name(output), ApplyToOgr(places[Turn.place], output).order)
    /\ UNCHANGED <<site, byName, bySrid, declared, request, output, box, places>>

(* The axis order that each renderer asks of apply_to.                     *)
RenderedAxisOrder ==
    IF request.format = "geojson" THEN "TRADITIONAL" ELSE DefaultAxisOrder(output)

(* render_gml_value and render_geometry of the renderers in Python: the    *)
(* geometry of the instance is transformed in place.                       *)
RenderGeometry ==
    /\ phase = "render" /\ ~site.dbRendering
    /\ Turn.kind = "geometry"
    /\ LET g == ApplyTo(places[Turn.place], output, RenderedAxisOrder, FALSE)
       IN  /\ places' = [places EXCEPT ![Turn.place] = g]
           /\ Write(Name(output), g.order)
    /\ UNCHANGED <<site, byName, bySrid, declared, request, output, box>>

(* The renderers that get text from the database: nothing is shared.       *)
RenderFromDatabase ==
    /\ phase = "render" /\ site.dbRendering
    /\ IF request.format = "gml"
       THEN Write(DatabaseGmlName(output), DatabaseGmlOrder(output))
       ELSE Write(Name(output), "xy")
    /\ UNCHANGED <<site, byName, bySrid, declared, request, output, box, places>>

Done == phase \in {"answered", "refused"} /\ UNCHANGED vars

Next ==
    \/ \E n \in Registrable : Register(n)
    \/ \E n \in Declarable : Declare(n)
    \/ Serve
    \/ \E r \in Requests : Receive(r)
    \/ Parse \/ Bind \/ BuildFilter \/ Query
    \/ RenderEnvelope \/ RenderGeometry \/ RenderFromDatabase
    \/ Done

Spec == Init /\ [][Next]_vars

-----------------------------------------------------------------------------
SystemType == [authority : {"none", "EPSG", "OGC"}, srid : Nat, forceXy : BOOLEAN]
GeometryType == [srid : Nat, order : {"xy", "yx"}, tag : {"none", "TRADITIONAL", "AUTHORITY"}]
TypeOK ==
    /\ site \in Sites
    /\ \A n \in DOMAIN byName : byName[n] \in SystemType /\ Name(byName[n]) = n
    /\ \A s \in DOMAIN bySrid : bySrid[s] \in SystemType /\ bySrid[s].srid = s /\ s # 4326
    /\ declared \in Seq(SystemType \ {Unknown})
    /\ phase \in {"configure", "receive", "parse", "bind", "filter", "query", "render",
                  "answered", "refused"}
    /\ request \in Requests \cup {NoRequest}
    /\ output \in SystemType
    /\ box.crs \in SystemType /\ box.geometry \in GeometryType
    /\ places \in [{PlaceOf[i] : i \in 1..Number} -> GeometryType]
    /\ \A k \in DOMAIN written : written[k].order \in {"xy", "yx"}

(* The coordinates of every geometry and envelope are in the order that    *)
(* the srsName next to them means, whether Python or the database wrote    *)
(* them; GeoJSON is always x/y.  (EWKT names a srid and promises nothing.) *)
AxesAsAnnounced ==
    request.format # "csv" =>
        \A k \in DOMAIN written :
            written[k].order = (IF request.format = "geojson" THEN "xy" ELSE MeantOrder(written[k].name))

(* A client gets the axes that its own notation of SRSNAME means, although *)
(* the site declared the same system in another notation, or cached it.    *)
(* Not so for a bare number: it means whatever was cached last for it.     *)
MeansTheCached(n) == n.form = "srid" /\ FromSrid(n.srid).forceXy
AskedAxesAreGiven ==
    request.format = "gml" /\ request.srs # NoNotation /\ ~MeansTheCached(request.srs) =>
        \A k \in DOMAIN written :
            /\ written[k].order = MeantOrder(request.srs)
            /\ written[k].name.srid = request.srs.srid
            /\ MeantAuthority(written[k].name) = MeantAuthority(request.srs)

(* The database gets the BBOX in x/y, as it was meant in the notation of   *)
(* the client, or in the default system of the feature type.               *)
InDatabase == request.box # "none" /\ phase \in {"query", "render", "answered"}
BoxIsReadAsMeant == InDatabase => box.geometry.order = "xy"

(* That is so for GML geometries, and for a KVP BBOX in a notation that    *)
(* follows the authority.                                                  *)
Legacy(n) == n.srid \in NorthEast /\ n.form # "crs84" /\ MeantOrder(n) = "xy"
FilterIsReadAsMeant ==
    InDatabase /\ ~MeansTheCached(request.crs) =>
        \/ request.box = "kvp" /\ Legacy(MeantByBox(request))
        \/ box.geometry.order = "xy"

(* With GISSERVER_SUPPORTED_CRS_ONLY a system is used exactly if it is     *)
(* declared, in whatever notation either side writes it; without it only   *)
(* what names no system is refused.                                        *)
Asked == {request.srs, request.crs} \ {NoNotation}
Declares(n) ==
    \E k \in DOMAIN declared :
        declared[k].srid = n.srid /\ declared[k].authority = MeantAuthority(n)
UndeclaredIsRefused ==
    LET Unusable(n) == n.form = "other" \/ (site.supportedOnly /\ ~Declares(n))
    IN  /\ phase = "refused" => \E n \in Asked : Unusable(n)
        /\ phase = "answered" => \A n \in Asked : ~Unusable(n)
=============================================================================
