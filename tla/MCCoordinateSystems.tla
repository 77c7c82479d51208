------------------------ MODULE MCCoordinateSystems ------------------------
(***************************************************************************)
(* Values of CoordinateSystems' constants for TLC.  3879 (Finland) has its *)
(* north axis first as 4326 has, 28992 (the Netherlands) has not.  Sites   *)
(* whose legacy settings disagree (EPSG:4326 is read as x/y, the older     *)
(* names are not) are left out: what they answer in the name of            *)
(* epsg.xml#4326 they would not read as such.                              *)
(***************************************************************************)
EXTENDS CoordinateSystems

N(form, srid) == [form |-> form, srid |-> srid]

MCSites ==
    {s \in [forceEpsg4326 : BOOLEAN, forceOldCrs : BOOLEAN, supportedOnly : BOOLEAN,
            dbRendering : BOOLEAN, ownCrs : BOOLEAN, storage : {4326, 3879}] :
       /\ s.forceEpsg4326 => s.forceOldCrs
       /\ s.ownCrs <=> s.storage = 4326}

MCDeclarable == {N("urn", 4326), N("short", 4326), N("crs84", 4326), N("xml", 3879), N("def", 28992)}
MCRegistrable == {N("xml", 3879), N("crs84", 4326)}
MCNorthEast == {4326, 3879}

Named == {N("urn", 4326), N("short", 4326), N("crs84", 4326), N("xml", 4326), N("srid", 3879),
          N("xml", 3879), N("def", 3879), N("short", 28992), N("other", 0)}
Boxed(srs, kind, crs) == [srs |-> srs, box |-> kind, crs |-> crs, format |-> "gml"]
MCRequests ==
    {[srs |-> n, box |-> "none", crs |-> NoNotation, format |-> f] :
        n \in Named \cup {NoNotation}, f \in {"gml", "geojson", "csv"}}
    \cup {Boxed(srs, "kvp", crs) : srs \in {NoNotation, N("short", 4326)}, crs \in Named \cup {NoNotation}}
    \cup {Boxed(NoNotation, "xml", crs) : crs \in Named}

(* Every feature has a geometry of its own, or two share a related object. *)
Apart == <<"p1", "p2">>
Together == <<"p1", "p1">>
=============================================================================
