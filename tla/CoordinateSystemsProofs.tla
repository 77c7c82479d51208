---------------------- MODULE CoordinateSystemsProofs ----------------------
(***************************************************************************)
(* Theorems about CoordinateSystems, for any sites, requests, notations    *)
(* and features.                                                           *)
(***************************************************************************)
EXTENDS CoordinateSystems, FiniteSets, FiniteSetTheorems, SequenceTheorems, WellFoundedInduction, TLAPS

-----------------------------------------------------------------------------
(* The first of several places in a list.                                  *)
LEMMA FirstIndex ==
    ASSUME NEW n \in Nat, NEW S, S \subseteq 1..n, S # {}
    PROVE  \E k \in S : \A l \in S : k <= l
<1> DEFINE Below == {1..k : k \in S}
           Smaller == StrictSubsetOrdering(1..n)
<1>1. IsWellFoundedOn(Smaller, SUBSET (1..n))
  <2>1. IsFiniteSet(1..n)
    BY FS_Interval
  <2>2. FiniteSubsetsOf(1..n) = SUBSET (1..n)
    BY <2>1, FS_FiniteSubsetsOfFinite
  <2> QED
    BY <2>2, FS_StrictSubsetOrderingWellFounded
<1>2. Below \subseteq SUBSET (1..n) /\ Below # {}
  <2>1. \A k \in S : 1..k \subseteq 1..n
    OBVIOUS
  <2> QED
    BY <2>1, Zenon
<1>3. PICK b \in Below : \A c \in Below : <<c, b>> \notin Smaller
  <2> HIDE DEF Below, Smaller
  <2> QED BY <1>1, <1>2, WFMin
<1>4. PICK k \in S : b = 1..k
  OBVIOUS
<1>5. ASSUME NEW l \in S, ~(k <= l) PROVE FALSE
  <2>1. 1..l \subseteq 1..k /\ k \in 1..k /\ k \notin 1..l
    BY <1>5
  <2>2. <<1..l, 1..k>> \in Smaller
    BY <1>2, <2>1 DEF StrictSubsetOrdering
  <2> QED
    BY <1>3, <1>4, <2>2
<1> QED
  BY <1>5

-----------------------------------------------------------------------------
(* The systems that notations name.                                        *)

System ==
    {c \in SystemType : /\ c.authority \in {"EPSG", "OGC"}
                        /\ c.authority = "OGC" => c = CRS84
                        /\ c.forceXy => (c.srid = 4326 /\ site.forceEpsg4326) \/ site.forceOldCrs}

(* The caches hold systems under their own names.                          *)
Caches ==
    /\ site \in Sites
    /\ \A n \in DOMAIN byName : byName[n] \in System /\ Name(byName[n]) = n
    /\ \A s \in DOMAIN bySrid :
          bySrid[s] \in System /\ bySrid[s].srid = s /\ bySrid[s].authority = "EPSG" /\ s # 4326

Names(n, c) == c \in System /\ c.srid = n.srid /\ c.authority = MeantAuthority(n)

LEMMA NameOfSystem ==
    ASSUME NEW c \in System
    PROVE  Names(Name(c), c) /\ Name(c) = DatabaseGmlName(c) /\ Name(c) \in Notations
BY DEF System, SystemType, Names, Name, DatabaseGmlName, MeantAuthority, Notations, Forms, CRS84, Equal, SameSystem

(* A system is found from every notation but the unknown ones, and it has  *)
(* the number and the authority of the notation.                           *)
LEMMA FromStringNames ==
    ASSUME Caches, NEW n \in Notations
    PROVE  /\ n.form = "other" => FromString(n) = Unknown
           /\ n.form # "other" => Names(n, FromString(n))
<1> USE DEF Caches
<1>0. site.storage \in Nat /\ site.forceEpsg4326 \in BOOLEAN /\ site.forceOldCrs \in BOOLEAN
  BY SystemsAssumption
<1>1. CASE n \in DOMAIN byName
  <2>1. FromString(n) = byName[n] /\ byName[n] \in System /\ Name(byName[n]) = n
    BY <1>1 DEF FromString
  <2>2. Names(n, byName[n])
    BY <2>1, NameOfSystem
  <2>3. n.form # "other"
    BY <2>1 DEF Name
  <2> QED
    BY <2>1, <2>2, <2>3
<1>2. CASE n \notin DOMAIN byName /\ n.form = "srid"
  BY <1>2 DEF FromString, FromSrid, EPSG, Names, System, SystemType, MeantAuthority, Notations
<1>3. CASE n \notin DOMAIN byName /\ n.form = "crs84"
  BY <1>3 DEF FromString, CRS84, Names, System, SystemType, MeantAuthority, Notations
<1>4. CASE n \notin DOMAIN byName /\ n.form = "urn"
  BY <1>4 DEF FromString, EPSG, Names, System, SystemType, MeantAuthority, Notations
<1>5. CASE n \notin DOMAIN byName /\ n.form \in {"short", "xml", "def"}
  <2>1. ForceXy(n) \in BOOLEAN /\ (ForceXy(n) => (n.srid = 4326 /\ site.forceEpsg4326) \/ site.forceOldCrs)
    BY <1>0 DEF ForceXy
  <2>2. FromString(n) = EPSG(n.srid, ForceXy(n)) /\ n.form # "crs84" /\ n.form # "other"
    BY <1>5 DEF FromString
  <2> QED
    BY <2>1, <2>2 DEF EPSG, Names, System, SystemType, MeantAuthority, Notations
<1>6. CASE n \notin DOMAIN byName /\ n.form = "other"
  BY <1>6 DEF FromString
<1> QED
  BY <1>1, <1>2, <1>3, <1>4, <1>5, <1>6 DEF Notations, Forms

LEMMA UnknownIsNoSystem == Unknown \notin System
BY DEF Unknown, System

(* A system is resolved to itself or to the declared one, with its axes;   *)
(* with GISSERVER_SUPPORTED_CRS_ONLY it has to be declared.                *)
IsDeclared(c) == \E k \in DOMAIN declared : SameSystem(declared[k], c)
LEMMA ResolveFinds ==
    ASSUME declared \in Seq(System), NEW c \in System
    PROVE  IF site.supportedOnly /\ ~IsDeclared(c) THEN ResolveCrs(c) = Unknown
           ELSE /\ ResolveCrs(c) \in System
                /\ SameSystem(ResolveCrs(c), c) /\ ResolveCrs(c).forceXy = c.forceXy
<1> DEFINE same == {k \in DOMAIN declared : SameSystem(declared[k], c)}
           first == CHOOSE k \in same : \A l \in same : k <= l
<1>1. DOMAIN declared = 1..Len(declared) /\ Len(declared) \in Nat
  BY LenProperties
<1>2. SameSystem(c, c)
  BY DEF SameSystem
<1>3. CASE same = {}
  BY <1>2, <1>3 DEF ResolveCrs, IsDeclared
<1>4. CASE same # {}
  <2>1. \E k \in same : \A l \in same : k <= l
    <3>1. same \subseteq 1..Len(declared)
      BY <1>1
    <3> HIDE DEF same
    <3> QED BY <1>1, <1>4, <3>1, FirstIndex
  <2>2. first \in same
    BY <2>1, Zenon
  <2>3. declared[first] \in System /\ SameSystem(declared[first], c) /\ IsDeclared(c)
    BY <1>1, <2>2, ElementOfSeq DEF IsDeclared
  <2>4. ResolveCrs(c) = IF declared[first].forceXy # c.forceXy THEN c ELSE declared[first]
    BY <1>4 DEF ResolveCrs
  <2> QED
    BY <1>2, <2>3, <2>4
<1> QED
  BY <1>3, <1>4

-----------------------------------------------------------------------------
(* What the request is, step by step, in terms of its notations.           *)
Srs == IF request.srs = NoNotation THEN Unknown ELSE FromString(request.srs)
BoxCrs == IF request.crs = NoNotation THEN Unknown ELSE FromString(request.crs)
Usable(n) == n.form # "other" /\ (site.supportedOnly => Declares(n))

Configured == declared \in Seq(System) /\ (phase # "configure" => declared # <<>>)
Received ==
    IF phase \in {"configure", "receive"}
    THEN request = NoRequest /\ output = Unknown /\ box = NoBox
    ELSE request \in Requests
IsParsed ==
    /\ phase = "bind" => output = Srs /\ (request.srs # NoNotation => Srs # Unknown)
    /\ phase \in {"bind", "filter"} =>
          /\ request.crs # NoNotation => BoxCrs # Unknown
          /\ box = IF request.box = "none" THEN NoBox
                   ELSE [crs |-> BoxCrs,
                         geometry |-> Geometry(BoxCrs.srid, MeantOrder(MeantByBox(request)), BoxTag(BoxCrs))]
IsResolved ==
    /\ phase \in {"filter", "query", "render", "answered"} =>
          /\ output \in System
          /\ request.srs # NoNotation => Usable(request.srs)
          /\ request.srs # NoNotation /\ request.format # "geojson" =>
                SameSystem(output, Srs) /\ output.forceXy = Srs.forceXy
    /\ phase \in {"query", "render", "answered"} => (request.crs # NoNotation => Usable(request.crs))
    /\ phase = "refused" => \E n \in Asked : ~Usable(n)
Types ==
    /\ phase \in {"configure", "receive", "parse", "bind", "filter", "query", "render",
                  "answered", "refused"}
    /\ output \in SystemType
    /\ box.crs \in SystemType /\ box.geometry \in GeometryType
Resolution == Caches /\ Configured /\ Received /\ IsParsed /\ IsResolved /\ Types

LEMMA SystemsAreTyped == Unknown \in SystemType /\ System \subseteq SystemType
BY DEF Unknown, System, SystemType

LEMMA CommonSystems == ASSUME site \in Sites PROVE Common \subseteq System
BY DEF Common, System, SystemType, WGS84, CRS84, EPSG

LEMMA ResolutionAtFirst == Init => Resolution
<1> SUFFICES ASSUME Init PROVE Resolution
  OBVIOUS
<1> USE DEF Init
<1>1. Caches
  <2>1. \A n \in DOMAIN byName : byName[n] \in Common /\ Name(byName[n]) = n
    OBVIOUS
  <2>2. \A s \in DOMAIN bySrid : s = 3857 /\ bySrid[s] = EPSG(3857, FALSE)
    OBVIOUS
  <2>3. site \in Sites /\ Common \subseteq System
    BY CommonSystems
  <2>4. EPSG(3857, FALSE) \in System
    BY DEF EPSG, System, SystemType
  <2>5. \A s \in DOMAIN bySrid :
           bySrid[s] \in System /\ bySrid[s].srid = s /\ bySrid[s].authority = "EPSG" /\ s # 4326
    BY <2>2, <2>4 DEF EPSG
  <2>6. \A n \in DOMAIN byName : byName[n] \in System /\ Name(byName[n]) = n
    BY <2>1, <2>3, Zenon
  <2> HIDE DEF Init
  <2> QED
    BY <2>3, <2>5, <2>6 DEF Caches
<1>2. Configured
  BY DEF Configured
<1>3. Received /\ IsParsed /\ IsResolved
  BY DEF Received, IsParsed, IsResolved
<1>4. Types
  BY SystemsAreTyped DEF Types, NoBox, Geometry, GeometryType
<1> QED
  BY <1>1, <1>2, <1>3, <1>4 DEF Resolution

LEMMA RequestFields ==
    ASSUME NEW r \in Requests
    PROVE  /\ r.srs # NoNotation => r.srs \in Notations
           /\ r.crs # NoNotation => r.crs \in Notations
BY SystemsAssumption

(* Declaring and caching keep the names of the systems that are known.     *)
LEMMA RegisterKeeps ==
    ASSUME Resolution, NEW n \in Registrable, Register(n) PROVE Resolution'
<1> DEFINE c == FromString(n)
<1>1. c \in System
  <2>1. n \in Notations
    BY SystemsAssumption
  <2> QED
    BY <2>1, FromStringNames DEF Resolution, Register, Names
<1>2. UNCHANGED <<site, declared, phase, request, output, box, places, written>> /\ phase = "configure"
  BY DEF Register
<1>3. CacheInstance(c)
  BY DEF Register
<1>4. System' = System
  BY <1>2 DEF System
<1>5. Caches'
  <2> HIDE DEF c
  <2>1. \A m \in DOMAIN byName' : byName'[m] \in System /\ Name(byName'[m]) = m
    BY <1>1, <1>3 DEF CacheInstance, Cached, Resolution, Caches
  <2>2. \A s \in DOMAIN bySrid' :
            bySrid'[s] \in System /\ bySrid'[s].srid = s /\ bySrid'[s].authority = "EPSG" /\ s # 4326
    BY <1>1, <1>3 DEF CacheInstance, Cached, Resolution, Caches
  <2> QED
    BY <1>2, <1>4, <2>1, <2>2 DEF Caches, Name, Resolution
<1>6. Configured' /\ Received' /\ Types'
  BY <1>2, <1>4 DEF Resolution, Configured, Received, Types, NoBox, NoRequest
<1>7. IsParsed' /\ IsResolved'
  BY <1>2 DEF Resolution, IsParsed, IsResolved
<1> QED
  BY <1>5, <1>6, <1>7 DEF Resolution

LEMMA DeclareKeeps ==
    ASSUME Resolution, NEW n \in Declarable, Declare(n) PROVE Resolution'
<1>1. FromString(n) \in System
  <2>1. n \in Notations
    BY SystemsAssumption
  <2> QED
    BY <2>1, FromStringNames DEF Resolution, Declare, Names
<1>2. UNCHANGED <<site, byName, bySrid, phase, request, output, box, places, written>> /\ phase = "configure"
  BY DEF Declare
<1>3. System' = System
  BY <1>2 DEF System
<1>4. Caches' /\ Received' /\ Types'
  BY <1>2, <1>3 DEF Resolution, Caches, Received, Types, Name, NoBox, NoRequest
<1>5. Configured'
  BY <1>1, <1>2, <1>3 DEF Resolution, Configured, Declare
<1>6. IsParsed' /\ IsResolved'
  BY <1>2 DEF Resolution, IsParsed, IsResolved
<1> QED
  BY <1>4, <1>5, <1>6 DEF Resolution

LEMMA ServeKeeps == ASSUME Resolution, Serve PROVE Resolution'
<1>1. UNCHANGED <<site, byName, bySrid, request, output, box, places, written>>
      /\ phase = "configure" /\ phase' = "receive"
  BY DEF Serve
<1>2. System' = System
  BY <1>1 DEF System
<1>3. Caches' /\ Received' /\ Types'
  BY <1>1, <1>2 DEF Resolution, Caches, Received, Types, Name, NoBox, NoRequest
<1>4. declared' \in Seq(System) /\ declared' # <<>>
  <2>1. CASE site.ownCrs
    BY <2>1 DEF Serve, Resolution, Configured
  <2>2. CASE ~site.ownCrs
    <3>1. site.storage \in Nat
      BY SystemsAssumption DEF Resolution, Caches
    <3>2. FromSrid(site.storage) \in System
      BY <3>1 DEF FromSrid, EPSG, System, SystemType, Resolution, Caches
    <3>3. declared' = <<FromSrid(site.storage)>> \o declared /\ declared \in Seq(System)
      BY <2>2 DEF Serve, Resolution, Configured
    <3> HIDE DEF FromSrid
    <3>4. <<FromSrid(site.storage)>> \in Seq(System)
      BY <3>2
    <3> QED
      BY <3>3, <3>4, ConcatProperties
  <2> QED
    BY <2>1, <2>2
<1>5. Configured'
  BY <1>2, <1>4 DEF Configured
<1>6. IsParsed' /\ IsResolved'
  BY <1>1 DEF IsParsed, IsResolved
<1> QED
  BY <1>3, <1>5, <1>6 DEF Resolution

LEMMA ReceiveKeeps ==
    ASSUME Resolution, NEW r \in Requests, Receive(r) PROVE Resolution'
<1>1. /\ UNCHANGED <<site, byName, bySrid, declared, output, box, places, written>>
      /\ phase = "receive" /\ phase' = "parse" /\ request' = r
  BY DEF Receive
<1>2. System' = System
  BY <1>1 DEF System
<1>3. Caches' /\ Configured' /\ Types'
  BY <1>1, <1>2 DEF Resolution, Caches, Configured, Types, Name
<1>4. Received' /\ IsParsed' /\ IsResolved'
  BY <1>1 DEF Received, IsParsed, IsResolved
<1> QED
  BY <1>3, <1>4 DEF Resolution

(* What a notation names, and whether it may be used.                      *)
LEMMA FromStringIsSystem ==
    ASSUME Caches, NEW n \in Notations
    PROVE  IF n.form = "other" THEN FromString(n) = Unknown ELSE FromString(n) \in System
BY FromStringNames DEF Names

LEMMA UsableIsDeclared ==
    ASSUME Caches, NEW n \in Notations, n.form # "other"
    PROVE  Declares(n) <=> IsDeclared(FromString(n))
<1>1. FromString(n).srid = n.srid /\ FromString(n).authority = MeantAuthority(n)
  BY FromStringNames DEF Names
<1> HIDE DEF MeantAuthority
<1> QED
  BY <1>1 DEF Declares, IsDeclared, SameSystem

LEMMA ParseKeeps == ASSUME Resolution, Parse PROVE Resolution'
<1>1. UNCHANGED <<site, byName, bySrid, declared, request, places, written>> /\ phase = "parse"
  BY DEF Parse
<1>2. request \in Requests /\ Caches
  BY <1>1 DEF Resolution, Received
<1>3. System' = System /\ Srs' = Srs /\ BoxCrs' = BoxCrs /\ Asked' = Asked
  BY <1>1 DEF System, Srs, BoxCrs, Asked, FromString, FromSrid, ForceXy
<1>4. /\ output' = Srs
      /\ box' = IF request.box = "none" THEN NoBox
                ELSE [crs |-> BoxCrs,
                      geometry |-> Geometry(BoxCrs.srid, MeantOrder(MeantByBox(request)), BoxTag(BoxCrs))]
      /\ phase' = IF \/ request.srs # NoNotation /\ Srs = Unknown
                     \/ request.crs # NoNotation /\ BoxCrs = Unknown
                  THEN "refused" ELSE "bind"
  BY DEF Parse, Srs, BoxCrs
<1>5. Srs \in SystemType /\ BoxCrs \in SystemType
  BY <1>2, RequestFields, FromStringIsSystem, SystemsAreTyped DEF Srs, BoxCrs
<1>6. ASSUME phase' = "refused" PROVE \E n \in Asked : n.form = "other"
  <2>1. PICK n \in Asked : FromString(n) = Unknown
    BY <1>4, <1>6 DEF Asked, Srs, BoxCrs
  <2>2. n \in Notations
    BY <1>2, RequestFields DEF Asked
  <2> QED
    BY <1>2, <2>1, <2>2, FromStringIsSystem, UnknownIsNoSystem
<1>7. Caches' /\ Configured' /\ Received'
  BY <1>1, <1>2, <1>3, <1>4 DEF Resolution, Caches, Configured, Received, Name
<1>8. Types'
  <2>1. NoBox.crs \in SystemType /\ NoBox.geometry \in GeometryType
    BY SystemsAreTyped DEF NoBox, Geometry, GeometryType
  <2>2. Geometry(BoxCrs.srid, MeantOrder(MeantByBox(request)), BoxTag(BoxCrs)) \in GeometryType
    BY <1>5 DEF SystemType, Geometry, GeometryType, MeantOrder, BoxTag
  <2> QED
    BY <1>4, <1>5, <2>1, <2>2 DEF Types
<1>9. IsParsed'
  <2>1. MeantOrder(MeantByBox(request))' = MeantOrder(MeantByBox(request)) /\ BoxTag(BoxCrs)' = BoxTag(BoxCrs)
    BY <1>1, <1>3 DEF MeantOrder, MeantByBox, BoxTag
  <2> QED
    BY <1>1, <1>3, <1>4, <2>1 DEF IsParsed
<1>10. IsResolved'
  BY <1>3, <1>4, <1>6 DEF IsResolved, Usable
<1> QED
  BY <1>7, <1>8, <1>9, <1>10 DEF Resolution

LEMMA BindKeeps == ASSUME Resolution, Bind PROVE Resolution'
<1>1. UNCHANGED <<site, byName, bySrid, declared, request, box, places, written>> /\ phase = "bind"
  BY DEF Bind
<1>2. request \in Requests /\ Caches /\ declared \in Seq(System) /\ declared # <<>>
  BY <1>1 DEF Resolution, Received, Configured
<1>3. /\ System' = System /\ Srs' = Srs /\ BoxCrs' = BoxCrs /\ Asked' = Asked
      /\ \A n : Usable(n)' <=> Usable(n)
  BY <1>1 DEF System, Srs, BoxCrs, Asked, FromString, FromSrid, ForceXy, Usable, Declares, MeantAuthority
<1>4. /\ output' = IF request.srs = NoNotation THEN declared[1] ELSE ResolveCrs(output)
      /\ phase' = IF output' = Unknown THEN "refused" ELSE "filter"
  BY DEF Bind
<1>5. \/ /\ request.srs # NoNotation /\ ~Usable(request.srs)
         /\ output' = Unknown
      \/ /\ output' \in System
         /\ request.srs # NoNotation =>
               Usable(request.srs) /\ SameSystem(output', Srs) /\ output'.forceXy = Srs.forceXy
  <2>1. CASE request.srs = NoNotation
    BY <1>2, <1>4, <2>1, ElementOfSeq, LenProperties
  <2>2. CASE request.srs # NoNotation
    <3>1. request.srs \in Notations /\ output = Srs /\ Srs = FromString(request.srs) /\ Srs # Unknown
      BY <1>1, <1>2, <2>2, RequestFields DEF Resolution, IsParsed, Srs
    <3>2. Srs \in System /\ request.srs.form # "other"
      BY <1>2, <3>1, FromStringIsSystem
    <3>3. Usable(request.srs) <=> (site.supportedOnly => IsDeclared(Srs))
      BY <1>2, <3>1, <3>2, UsableIsDeclared DEF Usable
    <3> QED
      BY <1>2, <1>4, <2>2, <3>1, <3>2, <3>3, ResolveFinds
  <2> QED
    BY <2>1, <2>2
<1>6. Caches' /\ Configured' /\ Received' /\ Types'
  <2>1. output' \in SystemType
    BY <1>5, SystemsAreTyped
  <2> QED
    BY <1>1, <1>2, <1>3, <1>4, <2>1 DEF Resolution, Caches, Configured, Received, Name, Types
<1>7. IsParsed'
  <2>1. MeantOrder(MeantByBox(request))' = MeantOrder(MeantByBox(request)) /\ BoxTag(BoxCrs)' = BoxTag(BoxCrs)
    BY <1>1, <1>3 DEF MeantOrder, MeantByBox, BoxTag
  <2>2. UNCHANGED <<request, box>> /\ IsParsed /\ phase' # "bind" /\ BoxCrs' = BoxCrs
    BY <1>1, <1>3, <1>4 DEF Resolution
  <2> QED
    BY <1>1, <2>1, <2>2 DEF IsParsed
<1>8. IsResolved'
  <2>1. CASE output' = Unknown
    <3>1. request.srs \in Asked /\ ~Usable(request.srs)
      BY <1>5, <2>1, UnknownIsNoSystem DEF Asked
    <3> QED
      BY <1>3, <1>4, <2>1, <3>1 DEF IsResolved
  <2>2. CASE output' # Unknown
    BY <1>1, <1>3, <1>4, <1>5, <2>2 DEF IsResolved, SameSystem
  <2> QED
    BY <2>1, <2>2
<1> QED
  BY <1>6, <1>7, <1>8 DEF Resolution

LEMMA ApplyToTyped ==
    ASSUME NEW g \in GeometryType, NEW c \in SystemType,
           NEW axisOrder \in {"TRADITIONAL", "AUTHORITY"}, NEW clone \in BOOLEAN
    PROVE  ApplyTo(g, c, axisOrder, clone) \in GeometryType
BY DEF GeometryType, SystemType, ApplyTo, Transformed, PhysicalOrder, Other

LEMMA BuildFilterKeeps == ASSUME Resolution, BuildFilter PROVE Resolution'
<1>1. UNCHANGED <<site, byName, bySrid, declared, request, output, places, written>> /\ phase = "filter"
  BY DEF BuildFilter
<1>2. request \in Requests /\ Caches /\ declared \in Seq(System) /\ declared # <<>>
  BY <1>1 DEF Resolution, Received, Configured
<1>3. System' = System /\ Srs' = Srs /\ BoxCrs' = BoxCrs /\ Asked' = Asked
      /\ \A n : Usable(n)' <=> Usable(n)
  BY <1>1 DEF System, Srs, BoxCrs, Asked, FromString, FromSrid, ForceXy, Usable, Declares, MeantAuthority
<1> DEFINE crs == IF box.crs = Unknown THEN declared[1] ELSE ResolveCrs(box.crs)
           g   == IF box.crs = Unknown THEN [box.geometry EXCEPT !.srid = crs.srid] ELSE box.geometry
<1> DEFINE geometry == IF IsNorthEast(crs) THEN ApplyTo(g, crs, "TRADITIONAL", TRUE) ELSE g
<1>4. /\ request.box = "none" => phase' = "query" /\ box' = box
      /\ request.box # "none" => /\ phase' = (IF crs = Unknown THEN "refused" ELSE "query")
                                 /\ box' = [crs |-> crs, geometry |-> geometry]
  BY Zenon DEF BuildFilter
<1>5. declared[1] \in System
  BY <1>2, ElementOfSeq, LenProperties
<1>6. /\ crs \in SystemType
      /\ request.box # "none" => IF crs = Unknown THEN request.crs # NoNotation /\ ~Usable(request.crs)
                                 ELSE request.crs # NoNotation => Usable(request.crs)
  <2>1. CASE box.crs = Unknown
    <3>1. request.box # "none" => request.crs = NoNotation
      BY <1>1, <2>1 DEF Resolution, IsParsed
    <3> QED
      BY <1>5, <2>1, <3>1, UnknownIsNoSystem, SystemsAreTyped
  <2>2. CASE box.crs # Unknown
    <3>1. /\ request.box # "none" /\ request.crs # NoNotation /\ request.crs \in Notations
          /\ box.crs = FromString(request.crs) /\ crs = ResolveCrs(box.crs)
      <4>1. IsParsed
        BY DEF Resolution
      <4>2. request.box # "none" /\ box.crs = BoxCrs /\ request.crs # NoNotation
        BY <1>1, <2>2, <4>1 DEF IsParsed, NoBox, BoxCrs
      <4> QED
        BY <1>2, <2>2, <4>2, RequestFields DEF BoxCrs
    <3>2. box.crs \in System /\ request.crs.form # "other"
      BY <1>2, <2>2, <3>1, FromStringIsSystem
    <3>3. Usable(request.crs) <=> (site.supportedOnly => IsDeclared(box.crs))
      BY <1>2, <3>1, <3>2, UsableIsDeclared DEF Usable
    <3> HIDE DEF crs
    <3> QED
      BY <1>2, <3>1, <3>2, <3>3, ResolveFinds, SystemsAreTyped, UnknownIsNoSystem
  <2> QED
    BY <2>1, <2>2
<1>7. Caches' /\ Configured' /\ Received'
  <2>1. phase' \in {"query", "refused"}
    <3> HIDE DEF crs, g
    <3> QED BY <1>4
  <2> QED
    BY <1>1, <1>2, <1>3, <2>1 DEF Resolution, Caches, Configured, Received, Name
<1>8. Types'
  <2>1. box.geometry \in GeometryType /\ box.crs \in SystemType /\ output \in SystemType
    BY DEF Resolution, Types
  <2>2. g \in GeometryType
    BY <1>6, <2>1 DEF GeometryType, SystemType
  <2>3. ApplyTo(g, crs, "TRADITIONAL", TRUE) \in GeometryType
    <3> HIDE DEF crs, g
    <3> QED BY <1>6, <2>2, ApplyToTyped
  <2>4. box'.crs \in SystemType /\ box'.geometry \in GeometryType
    <3>1. geometry \in GeometryType
      <4> HIDE DEF crs, g
      <4> QED BY <2>2, <2>3
    <3> HIDE DEF crs, g, geometry
    <3> QED BY <1>4, <1>6, <2>1, <3>1
  <2>5. phase' \in {"query", "refused"}
    BY <1>4
  <2> QED
    BY <1>1, <2>1, <2>4, <2>5 DEF Types
<1>9. IsParsed'
  BY <1>4 DEF IsParsed
<1>10. IsResolved'
  <2>1. CASE phase' = "refused"
    <3>1. request.crs \in Asked /\ ~Usable(request.crs)
      BY <1>4, <1>6, <2>1 DEF Asked
    <3> QED
      BY <1>3, <2>1, <3>1 DEF IsResolved
  <2>2. CASE phase' = "query"
    <3>1. request.crs # NoNotation => Usable(request.crs)
      <4>1. request.box = "none" => request.crs = NoNotation
        BY <1>2, SystemsAssumption
      <4> HIDE DEF crs, g
      <4> QED BY <1>4, <1>6, <2>2, <4>1
    <3> QED
      BY <1>1, <1>3, <2>2, <3>1 DEF Resolution, IsResolved, SameSystem
  <2> QED
    BY <1>4, <2>1, <2>2
<1> QED
  BY <1>7, <1>8, <1>9, <1>10 DEF Resolution

LEMMA QueryKeeps == ASSUME Resolution, Query PROVE Resolution'
<1>1. /\ UNCHANGED <<site, byName, bySrid, declared, request, box, written>>
      /\ phase = "query" /\ phase' \in {"answered", "render"}
      /\ output' = IF request.format = "geojson" /\ Equal(output, WGS84) THEN CRS84 ELSE output
  BY DEF Query
<1>2. /\ System' = System /\ Srs' = Srs /\ BoxCrs' = BoxCrs /\ Asked' = Asked
      /\ \A n : Usable(n)' <=> Usable(n)
  BY <1>1 DEF System, Srs, BoxCrs, Asked, FromString, FromSrid, ForceXy, Usable, Declares, MeantAuthority
<1>3. site \in Sites /\ output \in System
  BY <1>1 DEF Resolution, Caches, IsResolved
<1>4. output' \in System
  BY <1>1, <1>3, CommonSystems DEF Common
<1>5. Caches' /\ Configured' /\ Received' /\ Types'
  BY <1>1, <1>2, <1>4, SystemsAreTyped DEF Resolution, Caches, Configured, Received, Types, Name
<1>6. IsParsed' /\ IsResolved'
  BY <1>1, <1>2, <1>4 DEF Resolution, IsParsed, IsResolved, SameSystem
<1> QED
  BY <1>5, <1>6 DEF Resolution

(* The renderers, and a system at rest.                                    *)
LEMMA RenderKeeps ==
    ASSUME Resolution, UNCHANGED <<site, byName, bySrid, declared, request, output, box>>,
           UNCHANGED phase \/ (phase = "render" /\ phase' \in {"render", "answered"})
    PROVE  Resolution'
<1>1. /\ System' = System /\ Srs' = Srs /\ BoxCrs' = BoxCrs /\ Asked' = Asked
      /\ \A n : Usable(n)' <=> Usable(n)
  BY DEF System, Srs, BoxCrs, Asked, FromString, FromSrid, ForceXy, Usable, Declares, MeantAuthority
<1>2. Caches' /\ Configured' /\ Received' /\ Types'
  BY <1>1 DEF Resolution, Caches, Configured, Received, Types, Name, NoBox, NoRequest
<1>3. IsParsed'
  <2>1. MeantOrder(MeantByBox(request))' = MeantOrder(MeantByBox(request)) /\ BoxTag(BoxCrs)' = BoxTag(BoxCrs)
    BY <1>1 DEF MeantOrder, MeantByBox, BoxTag, Name
  <2> QED
    BY <1>1, <2>1 DEF Resolution, IsParsed
<1>4. IsResolved'
  BY <1>1 DEF Resolution, IsResolved, SameSystem
<1> QED
  BY <1>2, <1>3, <1>4 DEF Resolution

LEMMA NextKeepsResolution == ASSUME Resolution, [Next]_vars PROVE Resolution'
<1>1. ASSUME NEW n \in Registrable, Register(n) PROVE Resolution'
  BY <1>1, RegisterKeeps
<1>2. ASSUME NEW n \in Declarable, Declare(n) PROVE Resolution'
  BY <1>2, DeclareKeeps
<1>3. ASSUME NEW r \in Requests, Receive(r) PROVE Resolution'
  BY <1>3, ReceiveKeeps
<1>4. CASE Serve
  BY <1>4, ServeKeeps
<1>5. CASE Parse
  BY <1>5, ParseKeeps
<1>6. CASE Bind
  BY <1>6, BindKeeps
<1>7. CASE BuildFilter
  BY <1>7, BuildFilterKeeps
<1>8. CASE Query
  BY <1>8, QueryKeeps
<1>9. CASE RenderEnvelope \/ RenderGeometry \/ RenderFromDatabase
  <2>1. UNCHANGED <<site, byName, bySrid, declared, request, output, box>>
        /\ phase = "render" /\ phase' \in {"render", "answered"}
    BY <1>9 DEF RenderEnvelope, RenderGeometry, RenderFromDatabase, Write
  <2> QED
    BY <2>1, RenderKeeps
<1>10. CASE Done \/ UNCHANGED vars
  BY <1>10, RenderKeeps DEF Done, vars
<1> QED
  BY <1>1, <1>2, <1>3, <1>4, <1>5, <1>6, <1>7, <1>8, <1>9, <1>10 DEF Next

THEOREM ResolutionInvariant == Spec => []Resolution
BY ResolutionAtFirst, NextKeepsResolution, PTL DEF Spec

(* A request is refused exactly for a notation that names no system, or    *)
(* one that is not declared where only declared systems are supported,     *)
(* whatever the caches hold (CRS.from_string, FeatureType.resolve_crs).    *)
THEOREM OnlyUndeclaredIsRefused == Spec => []UndeclaredIsRefused
<1>1. Resolution => UndeclaredIsRefused
  BY DEF Resolution, IsResolved, UndeclaredIsRefused, Usable, Asked
<1> QED
  BY <1>1, ResolutionInvariant, PTL

-----------------------------------------------------------------------------
(* The order of the axes, on sites that read as x/y at least the names     *)
(* that they write: GISSERVER_FORCE_XY_EPSG_4326 only together with        *)
(* GISSERVER_FORCE_XY_OLD_CRS.                                             *)
ConsistentSites == \A s \in Sites : s.forceEpsg4326 => s.forceOldCrs

LEMMA NameIsRead ==
    ASSUME ConsistentSites, site \in Sites, NEW c \in System
    PROVE  MeantOrder(Name(c)) = DatabaseGmlOrder(c)
<1>1. c.forceXy => site.forceOldCrs
  BY DEF System, ConsistentSites
<1>2. c.forceXy \in BOOLEAN /\ c.authority \in {"EPSG", "OGC"} /\ (c.authority = "OGC" => c = CRS84)
  BY DEF System, SystemType
<1>3. CASE c.forceXy
  BY <1>1, <1>3 DEF Name, MeantOrder, DatabaseGmlOrder
<1>4. CASE ~c.forceXy /\ c.authority = "OGC"
  BY <1>4 DEF Name, MeantOrder, DatabaseGmlOrder, IsNorthEast
<1>5. CASE ~c.forceXy /\ c.authority = "EPSG"
  BY <1>5 DEF Name, MeantOrder, DatabaseGmlOrder, IsNorthEast
<1> QED
  BY <1>2, <1>3, <1>4, <1>5

(* A notation is read as it is meant, cached or not.                       *)
LEMMA MeantIsRead ==
    ASSUME ConsistentSites, Caches, NEW n \in Notations, n.form # "other", ~MeansTheCached(n)
    PROVE  MeantOrder(n) = DatabaseGmlOrder(FromString(n))
<1>0. site.storage \in Nat /\ site.forceEpsg4326 \in BOOLEAN /\ site.forceOldCrs \in BOOLEAN
  BY SystemsAssumption DEF Caches
<1>1. CASE n \in DOMAIN byName
  <2>1. FromString(n) = byName[n] /\ byName[n] \in System /\ Name(byName[n]) = n /\ site \in Sites
    BY <1>1 DEF FromString, Caches
  <2> QED
    BY <2>1, NameIsRead
<1>2. CASE n \notin DOMAIN byName /\ n.form = "srid"
  <2>1. FromString(n) = FromSrid(n.srid) /\ ~FromSrid(n.srid).forceXy
    BY <1>2 DEF FromString, MeansTheCached
  <2>2. FromSrid(n.srid).srid = n.srid /\ FromSrid(n.srid).authority = "EPSG"
    BY DEF FromSrid, Caches, EPSG
  <2> QED
    BY <1>2, <2>1, <2>2 DEF MeantOrder, DatabaseGmlOrder, IsNorthEast
<1>3. CASE n \notin DOMAIN byName /\ n.form = "urn"
  BY <1>3 DEF FromString, EPSG, MeantOrder, DatabaseGmlOrder, IsNorthEast
<1>4. CASE n \notin DOMAIN byName /\ n.form = "crs84"
  BY <1>4 DEF FromString, CRS84, MeantOrder, DatabaseGmlOrder, IsNorthEast
<1>5. CASE n \notin DOMAIN byName /\ n.form \in {"short", "xml", "def"}
  <2>1. FromString(n) = EPSG(n.srid, ForceXy(n))
    BY <1>5 DEF FromString
  <2> QED
    BY <1>0, <1>5, <2>1 DEF EPSG, ForceXy, MeantOrder, DatabaseGmlOrder, IsNorthEast
<1> QED
  BY <1>1, <1>2, <1>3, <1>4, <1>5 DEF Notations, Forms

InFilter(g, crs) == IF IsNorthEast(crs) THEN ApplyTo(g, crs, "TRADITIONAL", TRUE) ELSE g

(* A geometry in the order that its system and its tag say ends up in x/y, *)
(* and so does one that is x/y for a system that does not swap.            *)
LEMMA FilterGeometry ==
    ASSUME NEW g \in GeometryType, NEW c \in SystemType, c.srid = g.srid,
           IF IsNorthEast(c) THEN g.order = PhysicalOrder(TRUE, Tagged(g)) ELSE g.order = "xy"
    PROVE  InFilter(g, c).order = "xy"
BY DEF InFilter, GeometryType, ApplyTo, Transformed, PhysicalOrder, Other, Tagged, IsNorthEast

LEMMA FilterStep ==
    ASSUME BuildFilter, request.box # "none"
    PROVE  /\ box.crs = Unknown =>
                 box'.geometry = InFilter([box.geometry EXCEPT !.srid = declared[1].srid], declared[1])
           /\ box.crs # Unknown =>
                 /\ phase' = (IF ResolveCrs(box.crs) = Unknown THEN "refused" ELSE "query")
                 /\ box'.geometry = InFilter(box.geometry, ResolveCrs(box.crs))
<1> DEFINE crs == IF box.crs = Unknown THEN declared[1] ELSE ResolveCrs(box.crs)
           g   == IF box.crs = Unknown THEN [box.geometry EXCEPT !.srid = crs.srid] ELSE box.geometry
<1>1. /\ phase' = (IF crs = Unknown THEN "refused" ELSE "query")
      /\ box' = [crs |-> crs, geometry |-> InFilter(g, crs)]
  BY Zenon DEF BuildFilter, InFilter
<1>2. box'.geometry = InFilter(g, crs)
  <2> HIDE DEF g, crs
  <2> QED BY <1>1
<1>3. CASE box.crs = Unknown
  <2>1. crs = declared[1] /\ g = [box.geometry EXCEPT !.srid = declared[1].srid]
    BY <1>3
  <2> HIDE DEF g, crs
  <2> QED BY <1>2, <1>3, <2>1
<1>4. CASE box.crs # Unknown
  <2>1. crs = ResolveCrs(box.crs) /\ g = box.geometry
    BY <1>4
  <2> HIDE DEF g, crs
  <2> QED BY <1>1, <1>2, <1>4, <2>1
<1> QED
  BY <1>3, <1>4

LEMMA BuildFilterReads ==
    ASSUME ConsistentSites, Resolution, BuildFilter, request.box # "none", phase' = "query",
           ~MeansTheCached(request.crs),
           ~(request.box = "kvp" /\ Legacy(MeantByBox(request)))
    PROVE  box'.geometry.order = "xy"
<1>1. phase = "filter"
  BY DEF BuildFilter
<1>2. request \in Requests /\ Caches /\ site \in Sites /\ declared \in Seq(System) /\ declared # <<>>
  BY <1>1 DEF Resolution, Received, Configured, Caches
<1>3. box = [crs |-> BoxCrs,
             geometry |-> Geometry(BoxCrs.srid, MeantOrder(MeantByBox(request)), BoxTag(BoxCrs))]
      /\ (request.crs # NoNotation => BoxCrs # Unknown)
  BY <1>1 DEF Resolution, IsParsed
<1>4. declared[1] \in System
  BY <1>2, ElementOfSeq, LenProperties
<1>5. MeantOrder(MeantByBox(request)) \in {"xy", "yx"} /\ BoxTag(BoxCrs) \in {"none", "AUTHORITY"}
  BY DEF MeantOrder, BoxTag
<1>6. CASE request.crs = NoNotation
  <2> DEFINE c == declared[1]
             g == Geometry(c.srid, MeantOrder(Name(c)), "AUTHORITY")
  <2>1. request.box = "kvp"
    BY <1>2, <1>6, SystemsAssumption
  <2>2. box.crs = Unknown /\ box.geometry = Geometry(BoxCrs.srid, MeantOrder(Name(c)), "AUTHORITY")
    BY <1>3, <1>6, <2>1 DEF BoxCrs, MeantByBox, BoxTag
  <2>3. box'.geometry = InFilter(g, c)
    <3>1. [box.geometry EXCEPT !.srid = c.srid] = g
      BY <2>2 DEF Geometry
    <3> HIDE DEF g
    <3> QED BY <2>1, <2>2, <3>1, FilterStep
  <2>4. MeantOrder(Name(c)) = DatabaseGmlOrder(c)
    BY <1>2, <1>4, NameIsRead
  <2>5. Names(Name(c), c) /\ c \in SystemType
    BY <1>4, NameOfSystem, SystemsAreTyped
  <2>6. IsNorthEast(c) => MeantOrder(Name(c)) = "yx"
    BY <1>6, <2>1, <2>5 DEF Legacy, MeantByBox, Names, MeantAuthority, IsNorthEast, MeantOrder
  <2>7. ~IsNorthEast(c) => MeantOrder(Name(c)) = "xy"
    BY <2>4 DEF DatabaseGmlOrder
  <2>8. g \in GeometryType /\ g.order = MeantOrder(Name(c)) /\ g.srid = c.srid /\ g.tag = "AUTHORITY"
    BY <2>5 DEF Geometry, GeometryType, SystemType, MeantOrder
  <2> HIDE DEF c, g
  <2> QED
    BY <2>3, <2>5, <2>6, <2>7, <2>8, FilterGeometry DEF PhysicalOrder, Tagged
<1>7. CASE request.crs # NoNotation
  <2> DEFINE n == request.crs
             c == ResolveCrs(BoxCrs)
             g == box.geometry
  <2>1. n \in Notations /\ BoxCrs = FromString(n) /\ BoxCrs # Unknown
    BY <1>2, <1>3, <1>7, RequestFields DEF BoxCrs
  <2>2. n.form # "other" /\ Names(n, BoxCrs)
    BY <1>2, <2>1, FromStringNames
  <2>3. phase' = (IF c = Unknown THEN "refused" ELSE "query")
        /\ box'.geometry = InFilter(g, c)
    BY <1>3, <2>1, FilterStep
  <2>4. c \in System /\ SameSystem(c, BoxCrs) /\ c.forceXy = BoxCrs.forceXy
    <3>1. c # Unknown
      BY <2>3
    <3> QED
      BY <1>2, <2>2, <3>1, ResolveFinds DEF Names
  <2>5. MeantByBox(request) = n /\ g = Geometry(BoxCrs.srid, MeantOrder(n), BoxTag(BoxCrs))
    BY <1>3, <1>7 DEF MeantByBox
  <2>6. /\ c \in SystemType /\ g \in GeometryType /\ c.srid = g.srid /\ c.srid = n.srid
        /\ g.order = MeantOrder(n) /\ g.tag = BoxTag(BoxCrs) /\ c.authority = MeantAuthority(n)
    BY <1>5, <2>2, <2>4, <2>5, SystemsAreTyped DEF Geometry, GeometryType, SystemType, SameSystem, Names
  <2>7. MeantOrder(n) = DatabaseGmlOrder(BoxCrs)
    BY <1>2, <2>1, <2>2, MeantIsRead
  <2>8. ~IsNorthEast(c) => MeantOrder(n) = "xy"
    BY <2>6 DEF IsNorthEast, MeantAuthority, MeantOrder
  <2>9. IsNorthEast(c) => MeantOrder(n) = PhysicalOrder(TRUE, Tagged(g))
    <3>1. CASE request.box = "kvp"
      <4>1. IsNorthEast(c) => MeantOrder(n) = "yx"
        BY <2>5, <2>6, <3>1 DEF Legacy, IsNorthEast, MeantAuthority, MeantOrder
      <4>2. Tagged(g) = "AUTHORITY"
        BY <2>6, <3>1 DEF BoxTag, Tagged
      <4> QED
        BY <4>1, <4>2 DEF PhysicalOrder
    <3>2. CASE request.box = "xml"
      <4>1. IsNorthEast(c) => IsNorthEast(BoxCrs)
        BY <2>4 DEF IsNorthEast, SameSystem
      <4>2. Tagged(g) = IF BoxCrs.forceXy THEN "TRADITIONAL" ELSE "AUTHORITY"
        BY <2>6, <3>2 DEF BoxTag, Tagged
      <4> QED
        BY <2>7, <4>1, <4>2 DEF PhysicalOrder, DatabaseGmlOrder
    <3> QED
      BY <1>2, <3>1, <3>2, SystemsAssumption
  <2> HIDE DEF c, g, n
  <2> QED
    BY <2>3, <2>6, <2>8, <2>9, FilterGeometry
<1> QED
  BY <1>6, <1>7

(* The coordinates of a BBOX or of a geometry in a filter reach the        *)
(* database in x/y, as the client's notation means them; but for a KVP     *)
(* BBOX in a legacy notation (GEOSGMLGeometry.from_bbox, build_rhs).       *)
THEOREM FilterReachesDatabaseAsMeant == ASSUME ConsistentSites PROVE Spec => []FilterIsReadAsMeant
<1>1. Init => FilterIsReadAsMeant
  BY DEF Init, FilterIsReadAsMeant, InDatabase
<1>2. ASSUME FilterIsReadAsMeant, Resolution, [Next]_vars PROVE FilterIsReadAsMeant'
  <2>1. ASSUME BuildFilter PROVE FilterIsReadAsMeant'
    <3>1. UNCHANGED <<site, byName, bySrid, declared, request>>
      BY <2>1 DEF BuildFilter
    <3>2. MeantByBox(request)' = MeantByBox(request)
      BY <3>1 DEF MeantByBox, Name
    <3>3. /\ MeansTheCached(request.crs)' <=> MeansTheCached(request.crs)
          /\ Legacy(MeantByBox(request))' <=> Legacy(MeantByBox(request))
      BY <3>1, <3>2 DEF MeansTheCached, FromSrid, Legacy, MeantOrder
    <3>4. phase' \in {"query", "refused"}
      BY <2>1 DEF BuildFilter
    <3>5. ASSUME InDatabase', ~MeansTheCached(request.crs)',
                 ~(request.box = "kvp" /\ Legacy(MeantByBox(request)))'
          PROVE  box'.geometry.order = "xy"
      BY <1>2, <2>1, <3>1, <3>3, <3>4, <3>5, BuildFilterReads DEF InDatabase
    <3> QED
      BY <3>5 DEF FilterIsReadAsMeant
  <2>2. ASSUME UNCHANGED <<site, byName, bySrid, declared, request, box>>,
               InDatabase' => InDatabase
        PROVE  FilterIsReadAsMeant'
    <3>1. MeantByBox(request)' = MeantByBox(request)
      BY <2>2 DEF MeantByBox, Name
    <3>2. /\ MeansTheCached(request.crs)' <=> MeansTheCached(request.crs)
          /\ Legacy(MeantByBox(request))' <=> Legacy(MeantByBox(request))
      BY <2>2, <3>1 DEF MeansTheCached, FromSrid, Legacy, MeantOrder
    <3> QED
      BY <1>2, <2>2, <3>2 DEF FilterIsReadAsMeant
  <2>3. ASSUME phase' \in {"configure", "receive", "parse", "bind", "filter", "refused"}
        PROVE  FilterIsReadAsMeant'
    BY <2>3 DEF FilterIsReadAsMeant, InDatabase
  <2>4. CASE \/ \E n \in Registrable : Register(n)
             \/ \E n \in Declarable : Declare(n)
             \/ \E r \in Requests : Receive(r)
             \/ Serve \/ Parse \/ Bind
    <3>1. phase' \in {"configure", "receive", "parse", "bind", "filter", "refused"}
      BY <2>4 DEF Register, Declare, Receive, Serve, Parse, Bind
    <3> QED BY <2>3, <3>1
  <2>5. CASE Query \/ RenderEnvelope \/ RenderGeometry \/ RenderFromDatabase \/ Done \/ UNCHANGED vars
    <3>1. UNCHANGED <<site, byName, bySrid, declared, request, box>> /\ (InDatabase' => InDatabase)
      BY <2>5 DEF Query, RenderEnvelope, RenderGeometry, RenderFromDatabase, Done, vars, InDatabase
    <3> QED BY <2>2, <3>1
  <2> QED
    BY <1>2, <2>1, <2>4, <2>5 DEF Next
<1> QED
  BY <1>1, <1>2, ResolutionInvariant, PTL DEF Spec

-----------------------------------------------------------------------------
(* The rendered features, one turn after the other.                        *)
Each == Len(PerFeature)
Entry == [kind : {"envelope", "geometry"}, name : Notations, order : {"xy", "yx"}]
Rendered ==
    /\ places \in [{PlaceOf[i] : i \in 1..Number} -> GeometryType]
    /\ written \in Seq(Entry)
    /\ phase \notin {"render", "answered"} => written = <<>>
    /\ phase = "render" => Len(written) < Number * Each

LEMMA Turns ==
    ASSUME NEW w \in Nat, NEW p \in {1, 2}, NEW n \in Nat, w < n * p
    PROVE  /\ (w \div p) + 1 \in 1..n
           /\ w + 1 <= n * p
           /\ (w + 1) \div p = IF w % p = p - 1 THEN (w \div p) + 1 ELSE w \div p
<1>1. CASE p = 1
  BY <1>1
<1>2. CASE p = 2
  BY <1>2
<1> QED
  BY <1>1, <1>2

LEMMA EachTurn ==
    /\ Each \in {1, 2}
    /\ \A k \in 1..Each : PerFeature[k] = (IF k = Each THEN "geometry" ELSE "envelope")
BY DEF Each, PerFeature

LEMMA TurnIsAFeature ==
    ASSUME Rendered, phase = "render"
    PROVE  /\ Len(written) \in Nat /\ Len(written) + 1 <= Number * Each
           /\ (Len(written) \div Each) + 1 \in 1..Number
           /\ Turn.place = PlaceOf[(Len(written) \div Each) + 1]
           /\ Turn.kind \in {"envelope", "geometry"}
           /\ (Len(written) + 1) \div Each =
                 IF Turn.kind = "geometry" THEN (Len(written) \div Each) + 1 ELSE Len(written) \div Each
<1>1. Len(written) \in Nat /\ Number \in Nat /\ Each \in {1, 2} /\ Len(written) < Number * Each
  BY SystemsAssumption, EachTurn, LenProperties DEF Rendered
<1>2. /\ Turn.place = PlaceOf[(Len(written) \div Each) + 1]
      /\ Turn.kind = PerFeature[(Len(written) % Each) + 1]
  BY DEF Turn, Each
<1>3. (Len(written) % Each) + 1 \in 1..Each
  <2>1. CASE Each = 1
    BY <1>1, <2>1
  <2>2. CASE Each = 2
    BY <1>1, <2>2
  <2> QED
    BY <1>1, <2>1, <2>2
<1>4. Turn.kind = IF (Len(written) % Each) + 1 = Each THEN "geometry" ELSE "envelope"
  BY <1>2, <1>3, EachTurn
<1>5. /\ (Len(written) \div Each) + 1 \in 1..Number
      /\ Len(written) + 1 <= Number * Each
      /\ (Len(written) + 1) \div Each =
            IF Len(written) % Each = Each - 1 THEN (Len(written) \div Each) + 1 ELSE Len(written) \div Each
  BY <1>1, Turns
<1>6. (Len(written) % Each) + 1 = Each <=> Len(written) % Each = Each - 1
  BY <1>1, <1>3
<1> QED
  BY <1>1, <1>2, <1>4, <1>5, <1>6

(* One geometry or envelope is written.                                    *)
LEMMA WriteKeeps ==
    ASSUME Rendered, phase = "render", UNCHANGED request,
           NEW name \in Notations, NEW order \in {"xy", "yx"}, Write(name, order),
           places' \in [{PlaceOf[i] : i \in 1..Number} -> GeometryType]
    PROVE  /\ Rendered'
           /\ written' = Append(written, [kind |-> Turn.kind, name |-> name, order |-> order])
           /\ phase' \in {"render", "answered"}
<1> DEFINE e == [kind |-> Turn.kind, name |-> name, order |-> order]
<1>1. e \in Entry
  BY TurnIsAFeature DEF Entry
<1>2. written' = Append(written, e) /\ phase' = IF Len(written') = Number * Each THEN "answered" ELSE "render"
  BY DEF Write, Each
<1>3. written \in Seq(Entry) /\ Each' = Each
  BY DEF Rendered, Each, PerFeature
<1> HIDE DEF e
<1>4. written' \in Seq(Entry) /\ Len(written') = Len(written) + 1
  BY <1>1, <1>2, <1>3, AppendProperties
<1>5. Len(written') # Number * Each => Len(written') < Number * Each
  <2>1. Number * Each \in Nat
    BY SystemsAssumption, EachTurn
  <2> QED
    BY <1>4, <2>1, TurnIsAFeature
<1>6. Rendered'
  BY <1>2, <1>3, <1>4, <1>5 DEF Rendered
<1> QED
  BY <1>2, <1>6 DEF e

LEMMA StoredIsTyped == ASSUME site \in Sites PROVE Stored \in GeometryType
BY SystemsAssumption DEF Stored, Geometry, GeometryType

LEMMA TransformedIsTyped ==
    ASSUME NEW g \in GeometryType, NEW c \in SystemType, NEW source, NEW axisOrder
    PROVE  Transformed(g, c, source, axisOrder) \in GeometryType
BY DEF GeometryType, SystemType, Transformed, PhysicalOrder, Other

LEMMA RenderedAtFirst == Init => Rendered
<1> SUFFICES ASSUME Init PROVE Rendered
  OBVIOUS
<1>1. Stored \in GeometryType
  BY StoredIsTyped DEF Init
<1> QED
  BY <1>1 DEF Init, Rendered

LEMMA NextKeepsRendered == ASSUME Rendered, Resolution, [Next]_vars PROVE Rendered'
<1>1. ASSUME UNCHANGED <<places, written, request>>, phase \notin {"render", "answered"},
             phase' \notin {"render", "answered"}
      PROVE  Rendered'
  BY <1>1 DEF Rendered
<1>2. CASE \/ \E n \in Registrable : Register(n)
           \/ \E n \in Declarable : Declare(n)
           \/ Serve \/ Parse \/ Bind \/ BuildFilter
  <2>2. phase \notin {"render", "answered"} /\ phase' \notin {"render", "answered"}
        /\ UNCHANGED <<places, written, request>>
    BY <1>2 DEF Register, Declare, Serve, Parse, Bind, BuildFilter
  <2> QED
    BY <1>1, <2>2
<1>3. CASE \E r \in Requests : Receive(r)
  BY <1>3 DEF Receive, Rendered
<1>4. CASE Query
  <2>1. Stored \in GeometryType
    BY StoredIsTyped DEF Resolution, Caches
  <2>2. /\ written = <<>> /\ written' = <<>> /\ places' = [p \in DOMAIN places |-> Stored]
        /\ phase' = (IF Number = 0 THEN "answered" ELSE "render") /\ UNCHANGED request
    BY <1>4 DEF Query, Rendered
  <2>3. 0 < Number * Each \/ Number = 0
    BY SystemsAssumption, EachTurn
  <2>4. Each' = Each /\ Len(written') = 0
    BY <2>2 DEF Each, PerFeature
  <2>5. phase' = "render" => Len(written') < Number * Each'
    BY <2>2, <2>3, <2>4
  <2>6. DOMAIN places = {PlaceOf[i] : i \in 1..Number}
    BY DEF Rendered
  <2> QED
    BY <2>1, <2>2, <2>5, <2>6 DEF Rendered
<1>5. CASE RenderEnvelope
  <2>1. phase = "render" /\ UNCHANGED <<request, places>>
        /\ Write(Name(output), ApplyToOgr(places[Turn.place], output).order)
    BY <1>5 DEF RenderEnvelope
  <2>2. Turn.place \in {PlaceOf[i] : i \in 1..Number}
    BY <2>1, TurnIsAFeature
  <2>3. places[Turn.place] \in GeometryType
    BY <2>2 DEF Rendered
  <2>4. output \in System /\ output \in SystemType
    BY <2>1, SystemsAreTyped DEF Resolution, IsResolved
  <2>5. ApplyToOgr(places[Turn.place], output) \in GeometryType
    BY <2>3, <2>4, TransformedIsTyped DEF ApplyToOgr
  <2>6. ApplyToOgr(places[Turn.place], output).order \in {"xy", "yx"}
    BY <2>5 DEF GeometryType
  <2>7. Name(output) \in Notations
    BY <2>4, NameOfSystem
  <2> QED
    BY <2>1, <2>6, <2>7, WriteKeeps DEF Rendered
<1>6. CASE RenderGeometry
  <2> DEFINE g == ApplyTo(places[Turn.place], output, RenderedAxisOrder, FALSE)
  <2>1. phase = "render" /\ UNCHANGED request /\ Write(Name(output), g.order)
        /\ places' = [places EXCEPT ![Turn.place] = g]
    BY <1>6 DEF RenderGeometry
  <2>2. Turn.place \in {PlaceOf[i] : i \in 1..Number}
    BY <2>1, TurnIsAFeature
  <2>3. places[Turn.place] \in GeometryType
    BY <2>2 DEF Rendered
  <2>4. output \in System /\ output \in SystemType
    BY <2>1, SystemsAreTyped DEF Resolution, IsResolved
  <2>5. g \in GeometryType
    BY <2>3, <2>4, ApplyToTyped DEF RenderedAxisOrder, DefaultAxisOrder
  <2>6. g.order \in {"xy", "yx"} /\ Name(output) \in Notations
    <3>1. Name(output) \in Notations
      BY <2>4, NameOfSystem
    <3> HIDE DEF g
    <3> QED BY <2>5, <3>1 DEF GeometryType
  <2>7. places' \in [{PlaceOf[i] : i \in 1..Number} -> GeometryType]
    <3> HIDE DEF g
    <3> QED BY <2>1, <2>5 DEF Rendered
  <2> HIDE DEF g
  <2> QED
    BY <2>1, <2>6, <2>7, WriteKeeps
<1>7. CASE RenderFromDatabase
  <2>1. phase = "render" /\ UNCHANGED <<request, places>>
    BY <1>7 DEF RenderFromDatabase
  <2>2. output \in System
    BY <2>1 DEF Resolution, IsResolved
  <2>3. Name(output) \in Notations /\ DatabaseGmlName(output) \in Notations
    BY <2>2, NameOfSystem
  <2>4. DatabaseGmlOrder(output) \in {"xy", "yx"}
    BY DEF DatabaseGmlOrder
  <2>5. PICK name \in Notations, order \in {"xy", "yx"} : Write(name, order)
    BY <1>7, <2>3, <2>4 DEF RenderFromDatabase
  <2>6. places' \in [{PlaceOf[i] : i \in 1..Number} -> GeometryType]
    BY <2>1 DEF Rendered
  <2> QED
    BY <2>1, <2>5, <2>6, WriteKeeps
<1>8. CASE Done \/ UNCHANGED vars
  BY <1>8 DEF Done, vars, Rendered, Each, PerFeature
<1> QED
  BY <1>2, <1>3, <1>4, <1>5, <1>6, <1>7, <1>8 DEF Next

(* The state has its types: every system in the caches is there under its  *)
(* own name, and WGS84's number is never cached, so that it always means   *)
(* EPSG:4326 with the axes of the authority (CRS.cache_instance).          *)
THEOREM TypesAreRight == Spec => []TypeOK
<1>1. Spec => []Rendered
  BY RenderedAtFirst, NextKeepsRendered, ResolutionInvariant, PTL DEF Spec
<1>2. Rendered /\ Resolution => TypeOK
  <2> SUFFICES ASSUME Rendered, Resolution PROVE TypeOK
    OBVIOUS
  <2>1. System \subseteq SystemType \ {Unknown}
    BY SystemsAreTyped, UnknownIsNoSystem
  <2>2. declared \in Seq(SystemType \ {Unknown})
    BY <2>1 DEF Resolution, Configured
  <2>3. request \in Requests \cup {NoRequest}
    BY DEF Resolution, Received
  <2>4. \A k \in DOMAIN written : written[k].order \in {"xy", "yx"}
    <3>1. \A k \in DOMAIN written : written[k] \in Entry
      BY ElementOfSeq, LenProperties DEF Rendered
    <3> QED
      BY <3>1 DEF Entry
  <2>5. Caches /\ Types /\ System \subseteq SystemType
    BY SystemsAreTyped DEF Resolution
  <2> QED
    BY <2>2, <2>3, <2>4, <2>5 DEF TypeOK, Rendered, Caches, Types
<1> QED
  BY <1>1, <1>2, ResolutionInvariant, PTL

-----------------------------------------------------------------------------
(* Every feature's geometry is an object of its own.                       *)
Unshared == \A i, j \in 1..Number : PlaceOf[i] = PlaceOf[j] => i = j

Told(e) ==
    /\ e.name = Name(output)
    /\ e.order = IF request.format = "geojson" THEN "xy" ELSE DatabaseGmlOrder(output)
Announced ==
    /\ phase = "render" =>
          \A i \in 1..Number : Len(written) \div Each < i => places[PlaceOf[i]] = Stored
    /\ request.format # "csv" => \A k \in DOMAIN written : Told(written[k])

LEMMA StoredIsRendered ==
    ASSUME site \in Sites, NEW c \in System
    PROVE  /\ ApplyToOgr(Stored, c).order = DatabaseGmlOrder(c)
           /\ ApplyTo(Stored, c, DefaultAxisOrder(c), FALSE).order = DatabaseGmlOrder(c)
           /\ ApplyTo(Stored, c, "TRADITIONAL", FALSE).order = "xy"
<1>1. Stored.order = "xy" /\ Stored.tag = "none" /\ Stored.srid = site.storage
  BY DEF Stored, Geometry
<1>2. Stored \in GeometryType /\ c.forceXy \in BOOLEAN
  BY StoredIsTyped DEF System, SystemType
<1>3. \A axisOrder : Transformed(Stored, c, "TRADITIONAL", axisOrder).order = PhysicalOrder(IsNorthEast(c), axisOrder)
  BY <1>1, <1>2 DEF Transformed, PhysicalOrder, GeometryType
<1>4. ApplyToOgr(Stored, c).order = DatabaseGmlOrder(c)
  BY <1>2, <1>3 DEF ApplyToOgr, DefaultAxisOrder, PhysicalOrder, DatabaseGmlOrder
<1>5. \A axisOrder \in {"TRADITIONAL", "AUTHORITY"} :
         ApplyTo(Stored, c, axisOrder, FALSE).order = PhysicalOrder(IsNorthEast(c), axisOrder)
  BY <1>1, <1>3 DEF ApplyTo, Tagged, PhysicalOrder
<1> QED
  BY <1>2, <1>4, <1>5 DEF DefaultAxisOrder, PhysicalOrder, DatabaseGmlOrder

(* The entry that is appended is told as it was asked, and so are those    *)
(* before it.                                                              *)
LEMMA AppendTold ==
    ASSUME Rendered, Announced, UNCHANGED <<request, output>>, request.format # "csv",
           NEW e, written' = Append(written, e), Told(e)
    PROVE  (\A k \in DOMAIN written : Told(written[k]))'
<1>1. \A f : Told(f)' <=> Told(f)
  BY DEF Told, Name, DatabaseGmlOrder, IsNorthEast
<1>2. \A k \in DOMAIN written' : written'[k] = e \/ (k \in DOMAIN written /\ written'[k] = written[k])
  BY AppendProperties, LenProperties DEF Rendered
<1> QED
  BY <1>1, <1>2 DEF Announced

LEMMA NextKeepsAnnounced ==
    ASSUME Unshared, Announced, Rendered, Rendered', Resolution, [Next]_vars PROVE Announced'
<1>1. CASE \/ \E n \in Registrable : Register(n)
           \/ \E n \in Declarable : Declare(n)
           \/ \E r \in Requests : Receive(r)
           \/ Serve \/ Parse \/ Bind \/ BuildFilter
  <2>1. phase' \notin {"render", "answered"}
    BY <1>1 DEF Register, Declare, Receive, Serve, Parse, Bind, BuildFilter
  <2>2. written' = <<>>
    BY <2>1 DEF Rendered
  <2> QED
    BY <2>1, <2>2 DEF Announced
<1>2. CASE Query
  <2>1. written' = <<>> /\ places' = [p \in DOMAIN places |-> Stored] /\ UNCHANGED site
    BY <1>2 DEF Query, Rendered
  <2>2. DOMAIN places = {PlaceOf[i] : i \in 1..Number} /\ Stored' = Stored
    BY <2>1 DEF Rendered, Stored
  <2> QED
    BY <2>1, <2>2 DEF Announced
<1>3. ASSUME phase = "render", UNCHANGED <<site, request, output, places>>,
             NEW e, written' = Append(written, e),
             request.format # "csv" => Told(e),
             phase' \in {"render", "answered"}
      PROVE  Announced'
  <2>1. Len(written') = Len(written) + 1 /\ Len(written) \in Nat /\ Each' = Each /\ Stored' = Stored
    BY <1>3, AppendProperties, LenProperties DEF Rendered, Each, PerFeature, Stored
  <2>2. Len(written) \div Each <= Len(written') \div Each
    <3>1. Len(written) \div Each \in Nat
      BY <2>1, EachTurn
    <3> QED
      BY <1>3, <2>1, <3>1, TurnIsAFeature
  <2>3. \A i \in 1..Number : Len(written') \div Each < i => Len(written) \div Each < i
    BY <2>1, <2>2, EachTurn
  <2>5. (request.format # "csv" => \A k \in DOMAIN written : Told(written[k]))'
    BY <1>3, AppendTold
  <2> QED
    BY <1>3, <2>1, <2>3, <2>5 DEF Announced
<1>4. CASE RenderEnvelope
  <2>1. phase = "render" /\ UNCHANGED <<site, request, output, places>> /\ Turn.kind = "envelope"
        /\ Write(Name(output), ApplyToOgr(places[Turn.place], output).order)
    BY <1>4 DEF RenderEnvelope
  <2>2. output \in System /\ site \in Sites
    BY <2>1 DEF Resolution, IsResolved, Caches
  <2>3. places[Turn.place] = Stored
    <3>1. Len(written) \div Each < (Len(written) \div Each) + 1
      BY <2>1, TurnIsAFeature, EachTurn
    <3> QED
      BY <2>1, <3>1, TurnIsAFeature DEF Announced
  <2>4. request.format = "gml"
    BY <2>1, TurnIsAFeature DEF Turn, PerFeature
  <2> DEFINE e == [kind |-> Turn.kind, name |-> Name(output), order |-> ApplyToOgr(Stored, output).order]
  <2>5. written' = Append(written, e) /\ phase' \in {"render", "answered"}
    BY <2>1, <2>3 DEF Write
  <2>6. Told(e)
    BY <2>2, <2>4, StoredIsRendered DEF Told
  <2> HIDE DEF e
  <2> QED
    BY <1>3, <2>1, <2>5, <2>6
<1>5. CASE RenderGeometry
  <2> DEFINE i == (Len(written) \div Each) + 1
             g == ApplyTo(places[Turn.place], output, RenderedAxisOrder, FALSE)
             e == [kind |-> Turn.kind, name |-> Name(output), order |-> g.order]
  <2>1. /\ phase = "render" /\ UNCHANGED <<site, request, output>> /\ Turn.kind = "geometry"
        /\ places' = [places EXCEPT ![Turn.place] = g]
        /\ Write(Name(output), g.order)
    BY <1>5 DEF RenderGeometry
  <2>2. output \in System /\ site \in Sites
    BY <2>1 DEF Resolution, IsResolved, Caches
  <2>3. /\ i \in 1..Number /\ Turn.place = PlaceOf[i]
        /\ Len(written) \in Nat /\ (Len(written) + 1) \div Each = i
        /\ Len(written) \div Each < i
    BY <2>1, TurnIsAFeature, EachTurn
  <2>4. places[Turn.place] = Stored
    <3> HIDE DEF i
    <3> QED BY <2>1, <2>3 DEF Announced
  <2>5. written' = Append(written, e) /\ phase' \in {"render", "answered"}
    BY <2>1 DEF Write
  <2>6. Told(e)
    BY <2>2, <2>4, StoredIsRendered DEF Told, RenderedAxisOrder
  <2> HIDE DEF i, g, e
  <2>7. Len(written') \div Each' = i /\ Stored' = Stored
    <3>1. Len(written') = Len(written) + 1 /\ Each' = Each /\ Stored' = Stored
      BY <2>1, <2>5, AppendProperties DEF Rendered, Each, PerFeature, Stored
    <3> QED
      BY <2>3, <3>1
  <2>8. ASSUME NEW j \in 1..Number, i < j PROVE places'[PlaceOf[j]] = Stored
    <3>1. PlaceOf[j] # PlaceOf[i]
      BY <2>3, <2>8 DEF Unshared
    <3>2. Len(written) \div Each < j
      BY <2>3, <2>8, EachTurn DEF i
    <3>3. places[PlaceOf[j]] = Stored
      BY <2>1, <3>2 DEF Announced
    <3>4. DOMAIN places = {PlaceOf[k] : k \in 1..Number}
      BY DEF Rendered
    <3> QED
      BY <2>1, <2>3, <3>1, <3>3, <3>4
  <2>9. (request.format # "csv" => \A k \in DOMAIN written : Told(written[k]))'
    BY <2>1, <2>5, <2>6, AppendTold
  <2> QED
    BY <2>7, <2>8, <2>9 DEF Announced
<1>6. CASE RenderFromDatabase
  <2>1. phase = "render" /\ UNCHANGED <<site, request, output, places>> /\ site.dbRendering
    BY <1>6 DEF RenderFromDatabase
  <2>2. output \in System /\ Name(output) = DatabaseGmlName(output)
    <3>1. output \in System
      BY <2>1 DEF Resolution, IsResolved
    <3> QED BY <3>1, NameOfSystem
  <2>3. request.format \in {"gml", "geojson", "csv"}
    BY <2>1, SystemsAssumption DEF Resolution, Received
  <2> DEFINE e == [kind |-> Turn.kind, name |-> Name(output),
                   order |-> IF request.format = "gml" THEN DatabaseGmlOrder(output) ELSE "xy"]
  <2>4. written' = Append(written, e) /\ phase' \in {"render", "answered"}
    BY <1>6, <2>2 DEF RenderFromDatabase, Write
  <2>5. request.format # "csv" => Told(e)
    BY <2>3 DEF Told
  <2> HIDE DEF e
  <2> QED
    BY <1>3, <2>1, <2>4, <2>5
<1>7. CASE Done \/ UNCHANGED vars
  BY <1>7 DEF Done, vars, Announced, Told, Each, PerFeature, Stored, Name, DatabaseGmlOrder, IsNorthEast
<1> QED
  BY <1>1, <1>2, <1>4, <1>5, <1>6, <1>7 DEF Next

LEMMA AnnouncedInvariant == ASSUME Unshared PROVE Spec => [](Announced /\ Rendered /\ Resolution)
<1>1. Init => Announced
  BY DEF Init, Announced
<1>2. Announced /\ Rendered /\ Resolution /\ [Next]_vars => (Announced /\ Rendered /\ Resolution)'
  BY NextKeepsRendered, NextKeepsResolution, NextKeepsAnnounced
<1> QED
  BY <1>1, <1>2, RenderedAtFirst, ResolutionAtFirst, PTL DEF Spec

LEMMA WrittenIsResolved ==
    ASSUME Rendered, Resolution, NEW k \in DOMAIN written
    PROVE  /\ site \in Sites /\ Caches /\ request \in Requests /\ output \in System
           /\ request.srs # NoNotation => Usable(request.srs)
           /\ request.srs # NoNotation /\ request.format # "geojson" =>
                 SameSystem(output, Srs) /\ output.forceXy = Srs.forceXy
<1>1. phase \in {"render", "answered"}
  BY DEF Rendered
<1> QED
  BY <1>1 DEF Resolution, Received, Caches, IsResolved

(* Every coordinate that is written, by Python or by the database, has the *)
(* axes of the name that is written with it, when no two features share    *)
(* the geometry that is transformed in place (CRS.apply_to, gml32.py).     *)
THEOREM WrittenAxesAreAnnounced == ASSUME Unshared, ConsistentSites PROVE Spec => []AxesAsAnnounced
<1>1. Announced /\ Rendered /\ Resolution => AxesAsAnnounced
  <2> SUFFICES ASSUME Announced, Rendered, Resolution, request.format # "csv", NEW k \in DOMAIN written
               PROVE  written[k].order = (IF request.format = "geojson" THEN "xy" ELSE MeantOrder(written[k].name))
    BY DEF AxesAsAnnounced
  <2>1. Told(written[k])
    BY DEF Announced
  <2>2. MeantOrder(Name(output)) = DatabaseGmlOrder(output)
    BY WrittenIsResolved, NameIsRead
  <2> QED
    BY <2>1, <2>2 DEF Told
<1> QED
  BY <1>1, AnnouncedInvariant, PTL

(* And they are the axes, and the system, that the client asked for, in    *)
(* whatever notation the site declared it (CRS.from_string, resolve_crs).  *)
THEOREM AskedAxesAreWritten == ASSUME Unshared, ConsistentSites PROVE Spec => []AskedAxesAreGiven
<1>1. Announced /\ Rendered /\ Resolution => AskedAxesAreGiven
  <2> SUFFICES ASSUME Announced, Rendered, Resolution, NEW k \in DOMAIN written,
                      request.format = "gml", request.srs # NoNotation, ~MeansTheCached(request.srs)
               PROVE  /\ written[k].order = MeantOrder(request.srs)
                      /\ written[k].name.srid = request.srs.srid
                      /\ MeantAuthority(written[k].name) = MeantAuthority(request.srs)
    BY DEF AskedAxesAreGiven
  <2>1. /\ Caches /\ request \in Requests /\ output \in System /\ request.srs.form # "other"
        /\ SameSystem(output, Srs) /\ output.forceXy = Srs.forceXy
    BY WrittenIsResolved DEF Usable
  <2>2. request.srs \in Notations /\ Srs = FromString(request.srs)
    BY <2>1, RequestFields DEF Srs
  <2>3. Names(request.srs, Srs) /\ MeantOrder(request.srs) = DatabaseGmlOrder(Srs)
    BY <2>1, <2>2, FromStringNames, MeantIsRead
  <2>4. Names(Name(output), output) /\ written[k].name = Name(output)
        /\ written[k].order = DatabaseGmlOrder(output)
    BY <2>1, NameOfSystem DEF Announced, Told
  <2>5. DatabaseGmlOrder(output) = DatabaseGmlOrder(Srs)
    BY <2>1 DEF DatabaseGmlOrder, IsNorthEast, SameSystem
  <2> QED
    BY <2>1, <2>3, <2>4, <2>5 DEF Names, SameSystem
<1> QED
  BY <1>1, AnnouncedInvariant, PTL
=============================================================================
