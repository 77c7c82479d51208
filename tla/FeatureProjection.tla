------------------------- MODULE FeatureProjection -------------------------
(***************************************************************************)
(* From PROPERTYNAME to an answer: FeatureProjection (projection.py) tells *)
(* which elements of a feature are shown, the renderer of the format adds  *)
(* or removes some (decorate_queryset), and the projection then tells      *)
(* which columns and which relations are loaded.  The features are         *)
(* rendered from what was loaded; what was not is read from the database,  *)
(* for every row again.                                                    *)
(*                                                                         *)
(* PROPERTYNAME is None when it is not given, else a sequence of XPaths,   *)
(* which is empty for "PROPERTYNAME=".  One row is rendered; nulls tells   *)
(* whether its relations lead nowhere and its geometries are null.         *)
(***************************************************************************)
EXTENDS FeatureSchema

CONSTANTS
    FeatureTypes,   \* the feature types that may be configured
    PropertyNames   \* [name of a feature type -> values of PROPERTYNAME]

ASSUME FeatureTypesAssumption == \A f \in FeatureTypes : f.model \in DOMAIN Model /\ IsConfiguration(f)

ASSUME PropertyNamesAssumption ==
    \A f \in FeatureTypes : \A n \in PropertyNames[Configured(f).name] :
        n = None \/ n \in Seq(ToSet(n))

VARIABLES
    ft, names,     \* the feature type and the PROPERTYNAME of the request
    format, db,    \* the output format, and GISSERVER_USE_DB_RENDERING
    nulls,         \* what is null in the row: "relations", "geometries"
    phase,         \* the call that is next
    roots,         \* xsd_root_elements
    keys,          \* the keys of xsd_child_nodes, in their order
    children,      \* [ToSet(keys) -> the child nodes], xsd_child_nodes
    extra,         \* _extra_matches: the elements that were restored
    cached,        \* the cached property xpath_matches, None if not cached
    relations,     \* the Prefetch objects of the queryset
    columns,       \* the columns of the model that it loads
    annotated,     \* the attributes that it lets the database render
    envelope,      \* the attributes whose union is rendered as boundedBy
    outcome,       \* "none", "refused", "crashed" or "rendered"
    reads          \* what was read from the database for the row itself

request == <<ft, names, format, db, nulls>>
projection == <<roots, keys, children, extra, cached>>
query == <<relations, columns, annotated, envelope>>
vars == <<request, phase, projection, query, outcome, reads>>

Formats == {"gml", "json", "csv"}

Given == names \notin {None, <<>>}
NamedElements == [k \in DOMAIN names |-> Resolved(ft, names[k])]

(* The cached property xpath_matches; _clear_cached_properties() drops it. *)
Matches == IF cached = None THEN NamedElements \o extra ELSE cached
Cleared_Kept == cached   \* mutant: forgotten
Cleared == None

AllElements == roots \o FlattenSeq([k \in DOMAIN keys |-> children[keys[k]]])

-----------------------------------------------------------------------------

Init ==
    /\ ft \in {Configured(f) : f \in FeatureTypes}
    /\ names \in PropertyNames[ft.name]
    /\ format \in Formats
    /\ db \in BOOLEAN
    /\ nulls \in SUBSET {"relations", "geometries"}
    /\ phase = "bind" /\ outcome = "none"
    /\ roots = <<>> /\ keys = <<>> /\ children = <<>> /\ extra = <<>> /\ cached = None
    /\ relations = <<>> /\ columns = {} /\ annotated = {} /\ envelope = {}
    /\ reads = {}

Fail(how) ==
    /\ phase' = "done" /\ outcome' = how
    /\ UNCHANGED <<request, projection, query, reads>>

(* bind() of the fields when the feature type is first used, and the main  *)
(* geometry that its CRS is taken from.                                    *)
Misconfigured ==
    (\E e \in DOMAIN ft.fields : ~Bindable(ft, e)) \/ MainGeometries(ft) = <<>>
Bind ==
    /\ phase = "bind"
    /\ IF Misconfigured THEN Fail("crashed")
       ELSE phase' = "resolve" /\ UNCHANGED <<request, projection, query, outcome, reads>>

(* get_queryset() of the query: decorate_query() of each property name.    *)
Resolve ==
    /\ phase = "resolve"
    /\ LET faulty == {n \in ToSet(names) : NotImplementedXPath(ft, n) \/ UnknownXPath(ft, n)}
           first == CHOOSE n \in faulty : \A k \in DOMAIN names :
                        names[k] \in faulty => SelectInSeq(names, LAMBDA x : x = n) <= k
       IN  IF Given /\ faulty # {}
           THEN Fail(IF UnknownXPath(ft, first) THEN "refused" ELSE "crashed")
           ELSE phase' = "project" /\ UNCHANGED <<request, projection, query, outcome, reads>>

(* FeatureProjection.__init__() with _get_child_nodes_subset().            *)
Project ==
    /\ phase = "project"
    /\ IF Given
       THEN LET nodes == WithoutRepeats(FlattenSeq(
                             [k \in DOMAIN NamedElements |-> Nodes(NamedElements[k])]))
            IN  /\ cached' = NamedElements
                /\ roots' = Only(nodes, {e \in ToSet(nodes) : Len(e) = 1})
                /\ keys' = Only(nodes, {Front(e) : e \in ToSet(nodes)})
                /\ children' = [p \in ToSet(keys') |-> Only(nodes, {e \in ToSet(nodes) : Front(e) = p})]
       ELSE /\ roots' = ElementsIncludingBase(ft)
            /\ keys' = AllComplexElements(ft)
            /\ children' = [p \in ToSet(keys') |-> Elements(ft, p)]
            /\ UNCHANGED cached
    /\ phase' = "add"
    /\ UNCHANGED <<request, extra, query, outcome, reads>>

(* add_field(): GeoJSON always shows the main geometry.                    *)
AddField ==
    /\ phase = "add"
    /\ IF format = "json" /\ Given /\ ~Contains(roots, MainGeometry(ft))
       THEN /\ roots' = Append(roots, MainGeometry(ft))
            /\ extra' = Append(extra, MainGeometry(ft))
            /\ cached' = Cleared
       ELSE UNCHANGED <<roots, extra, cached>>
    /\ phase' = "remove"
    /\ UNCHANGED <<request, keys, children, query, outcome, reads>>

(* The elements a format cannot show: GeoJSON has one geometry, CSV no     *)
(* lists (but for arrays), no gml:name and no gml:boundedBy.               *)
Unshown_Arrays(e) ==   \* mutant: arrays are lists as well
    CASE format = "json" -> IsGeometry(ft, e) /\ e # MainGeometry(ft)
      [] format = "csv"  -> IsMany(ft, e) \/ e \in {GmlName, BoundedBy}
      [] OTHER -> FALSE
Unshown(e) ==
    CASE format = "json" -> IsGeometry(ft, e) /\ e # MainGeometry(ft)
      [] format = "csv"  -> (IsMany(ft, e) /\ ~IsArray(ft, e)) \/ e \in {GmlName, BoundedBy}
      [] OTHER -> FALSE
Kept(elements) == Only(elements, {e \in ToSet(elements) : ~Unshown(e)})
(* remove_fields(): the children of an element that is removed are not     *)
(* looked at, so what is nested deeper in them stays.                      *)
RemovedKeys ==
    LET IsRemoved[k \in 0 .. Len(keys)] ==   \* the elements removed by the first k
            IF k = 0 THEN {e \in ToSet(roots) : Unshown(e)}
            ELSE IsRemoved[k - 1] \cup
                 (IF keys[k] \in IsRemoved[k - 1] THEN {}
                  ELSE {e \in ToSet(children[keys[k]]) : Unshown(e)})
    IN  IsRemoved[Len(keys)]
RemoveFields ==
    /\ phase = "remove"
    /\ IF format = "gml" THEN UNCHANGED <<roots, keys, children, cached>>
       ELSE /\ roots' = Kept(roots)
            /\ keys' = Only(keys, ToSet(keys) \ RemovedKeys)
            /\ children' = [p \in ToSet(keys') |-> Kept(children[p])]
            /\ cached' = Cleared
    /\ phase' = "decorate"
    /\ UNCHANGED <<request, extra, query, outcome, reads>>

-----------------------------------------------------------------------------
(* orm_relations: each relation that is followed, with the names that are  *)
(* loaded of its objects.  The flattened elements come first; a complex    *)
(* element replaces the sub fields that were found for its relation.       *)

AllFlattened ==
    IF Given THEN Only(AllElements, {e \in ToSet(AllElements) : IsFlattened(ft, e)})
    ELSE FlattenedElements(ft)
SubFields(p) == {e \in ToSet(children[p]) : ~IsMany(ft, e) \/ IsArray(ft, e)}
ComplexAt(path) == Only(keys, {p \in ToSet(keys) : Absolute(ft, p) = path})
FieldsAt(path) ==
    IF ComplexAt(path) # <<>> THEN SubFields(Last(ComplexAt(path)))
    ELSE {e \in ToSet(AllFlattened) : OrmRelation(ft, e) = path}
(* _local_backlink_field_names: the foreign keys that lists are matched    *)
(* by.  For a dotted attribute that ends in a list it is one of the model  *)
(* behind that list, though the relation ends in the model before it.      *)
BackLinks_None(path) == {}   \* mutant: only the fields that are shown
ElementsAt(path) == ToSet(ComplexAt(path)) \cup {e \in ToSet(AllFlattened) : OrmRelation(ft, e) = path}
BackLinks(path) ==
    {Source(ft, e).back : e \in {f \in ElementsAt(path) : Source(ft, f).kind = "reverse"}}
LocalNames(path) ==
    {Last(Absolute(ft, e)) : e \in {f \in FieldsAt(path) : Source(ft, f).kind \notin {"m2m", "reverse"}}}
    \cup BackLinks(path)
RelationPaths ==
    WithoutRepeats([k \in DOMAIN AllFlattened |-> OrmRelation(ft, AllFlattened[k])]
                   \o [k \in DOMAIN keys |-> Absolute(ft, keys[k])])

(* The database renders the geometries, in GML and CSV those of relations  *)
(* too.  They are looked up by the attribute of the element alone.         *)
RendersGeometries == db /\ format \in {"gml", "csv"}
GeometriesAt(path) == {e \in FieldsAt(path) : IsGeometry(ft, e)}
Rendered_Absolute(path) ==   \* mutant: the path from the feature
    IF RendersGeometries THEN {Absolute(ft, e) : e \in GeometriesAt(path)} ELSE {}
Rendered(path) == IF RendersGeometries THEN {Attribute(ft, e) : e \in GeometriesAt(path)} ELSE {}
PrefetchOf(path) ==
    [path |-> path, rendered |-> Rendered(path),
     loaded |-> {"id"} \cup (LocalNames(path) \ {a[1] : a \in {b \in Rendered(path) : Len(b) = 1}})]
WrongAttribute ==   \* annotate() of a queryset does not find the attribute
    \E path \in ToSet(RelationPaths) :
        \E a \in Rendered(path) : ~Leads(ModelBehind(ft.model, path), a)

(* only_fields; "PROPERTYNAME=" is an error here.                          *)
OnlyFields ==
    IF Given
    THEN {Absolute(ft, e) : e \in {f \in ToSet(Matches) : ~CrossesMany(ft, f) \/ IsArray(ft, f)}}
    ELSE {Absolute(ft, e) : e \in {f \in ToSet(Elements(ft, Root)) : ~IsMany(ft, f) \/ IsArray(ft, f)}}
(* gml:boundedBy has no model_attribute, which the search for dots misses. *)
NoAttribute == Given /\ Contains(AllElements, BoundedBy)

(* What the database renders for the feature itself.                       *)
Replaced ==
    CASE RendersGeometries ->
             {Absolute(ft, e) : e \in {f \in ToSet(roots) : IsGeometry(ft, f) /\ f # BoundedBy}}
      [] db /\ format = "json" -> {Absolute(ft, MainGeometry(ft))}
      [] OTHER -> {}
EnvelopeOf(elements) == {e \in elements : IsGeometry(ft, e) /\ e # BoundedBy}

(* decorate_queryset() of the renderer: only(), prefetch_related(), and    *)
(* defer() and annotate() for what the database renders.                   *)
Decorate ==
    /\ phase = "decorate"
    /\ IF names = <<>> \/ NoAttribute \/ WrongAttribute THEN Fail("crashed")
       ELSE /\ relations' = [k \in DOMAIN RelationPaths |-> PrefetchOf(RelationPaths[k])]
            /\ columns' = {"id"} \cup {Head(a) : a \in OnlyFields \ Replaced}
            /\ annotated' = Replaced
            /\ envelope' = IF db /\ format = "gml" /\ Contains(roots, BoundedBy)
                           THEN {Absolute(ft, e) : e \in EnvelopeOf(ToSet(AllElements))} ELSE {}
            /\ cached' = IF Given THEN Matches ELSE cached
            /\ phase' = "query"
            /\ UNCHANGED <<request, roots, keys, children, extra, outcome, reads>>

-----------------------------------------------------------------------------
(* Django: the query.  A name in only() has to exist, and a Prefetch with  *)
(* a queryset has to come before the lookups that pass through it.  Where  *)
(* there are no objects, the relations of these are not looked at.         *)

IsPrefetched(path) == Len(path) = 1 \/ "relations" \notin nulls
UnknownColumn ==
    \/ \E a \in OnlyFields : ~Leads(ft.model, a)
    \/ \E r \in ToSet(relations) :
            IsPrefetched(r.path) /\ ~(r.loaded \subseteq DOMAIN Model[ModelBehind(ft.model, r.path)])
TooLate ==
    \E i, j \in DOMAIN relations :
        j < i /\ IsPrefetched(relations[i].path) /\ IsStrictPrefix(relations[i].path, relations[j].path)
Query ==
    /\ phase = "query"
    /\ IF UnknownColumn \/ TooLate THEN Fail("crashed")
       ELSE phase' = "render" /\ UNCHANGED <<request, projection, query, outcome, reads>>

(* The objects that are in memory, by the relations that lead to them, and *)
(* the columns they were loaded with: all of them, if the object was only  *)
(* on the way to another or is read for the row itself.                    *)
Fetched == UNION {{SubSeq(r.path, 1, k) : k \in 1 .. Len(r.path)} : r \in ToSet(relations)}
LoadedAt(path) ==
    IF path = <<>> THEN columns
    ELSE IF \E r \in ToSet(relations) : r.path = path
    THEN (CHOOSE r \in ToSet(relations) : r.path = path).loaded
    ELSE DOMAIN Model[ModelBehind(ft.model, path)]
(* Reading an attribute, from the database where it was not loaded; as a   *)
(* value, or as the object that a relation leads to.                       *)
StepOf(attribute, k, asObject) ==
    LET object == SubSeq(attribute, 1, k - 1)
        to == SubSeq(attribute, 1, k)
    IN  IF k < Len(attribute) \/ asObject
        THEN /\ to \in Fetched
             /\ LET relation == FieldAt(ft.model, to)
                IN  CASE relation.kind = "fk"      -> attribute[k] \in LoadedAt(object)
                      [] relation.kind = "reverse" -> relation.back \in LoadedAt(to)
                      [] OTHER -> TRUE
        ELSE attribute[k] \in LoadedAt(object)
ReadsFor(attribute, asObject) ==
    {SubSeq(attribute, 1, k) : k \in
        {j \in 1 .. (IF "relations" \in nulls THEN 1 ELSE Len(attribute)) : ~StepOf(attribute, j, asObject)}}

-----------------------------------------------------------------------------
(* The renderers: write_feature() of GML, get_properties() of GeoJSON, and *)
(* get_header() and get_row() of CSV, which go into null objects too.      *)

Listed(e) ==
    \E k \in 1 .. Len(e) :
        /\ Contains(roots, SubSeq(e, 1, k))
        /\ \A j \in (k + 1) .. Len(e) :
               LET parent == SubSeq(e, 1, j - 1)
               IN  parent \in ToSet(keys) /\ Contains(children[parent], SubSeq(e, 1, j))
Visited ==
    {e \in Resolvable(ft) :
        /\ Listed(e)
        /\ format # "csv" => /\ "relations" \in nulls => Contains(roots, e)
                             /\ ~NeverThere(ft, Front(e))}
Leaves == {e \in Visited : ~IsComplex(ft, e)}
Dotted(e) == Len(Absolute(ft, e)) > 1
IsNull(e) == "geometries" \in nulls \/ ("relations" \in nulls /\ Dotted(e)) \/ NeverThere(ft, e)

(* A complex element that was named without its children has no entry in   *)
(* xsd_child_nodes.                                                        *)
NoChildren ==
    \E e \in Visited : /\ IsComplex(ft, e) /\ e \notin ToSet(keys)
                       /\ \/ format = "csv"
                          \/ "relations" \notin nulls /\ ~NeverThere(ft, e)
                          \/ format = "json" /\ IsMany(ft, e) /\ ~IsFlattened(ft, e)
(* get_db_rendered_geometry(): the annotation is of the object that the    *)
(* parent element leads to, and there may be none.                         *)
IsAnnotated(e) ==
    IF Len(e) = 1 THEN Absolute(ft, e) \in annotated
    ELSE \E r \in ToSet(relations) : r.path = Absolute(ft, Front(e)) /\ Attribute(ft, e) \in r.rendered
(* BoundedBy.get_value() follows the attributes from the feature, and has  *)
(* no exception handler.                                                   *)
IsOutOfReach(g) ==
    \/ Dotted(g) /\ "relations" \in nulls
    \/ \E k \in 1 .. Len(Absolute(ft, g)) - 1 : IsManager(ft, SubSeq(Absolute(ft, g), 1, k))
GeometryFails(e) ==
    CASE e = BoundedBy -> ~db /\ \E g \in ToSet(AllGeometryElements(ft)) : IsOutOfReach(g)
      [] e # BoundedBy /\ format = "csv" /\ ~db -> IsNull(e)   \* there is no check for null
      [] OTHER -> RendersGeometries /\ \/ ~IsAnnotated(e)
                                       \/ Len(e) > 1 /\ ("relations" \in nulls
                                                         \/ NeverThere(ft, Front(e)))
(* A list of model instances is nothing that JSON has a notation for, and  *)
(* the manager of the other side of a foreign key cannot be iterated.      *)
Unwritable(e) ==
    CASE format = "json" -> IsPlainList(ft, e)
      [] format = "gml"  -> IsPlainList(ft, e) /\ Source(ft, e).kind = "reverse"
      [] OTHER -> FALSE
IsNothing(e) ==   \* None, or an empty list
    \/ NeverThere(ft, e)
    \/ "relations" \in nulls /\ (IsFlattened(ft, e) \/ Source(ft, e).kind = "m2m")
RenderFails ==
    \/ NoChildren
    \/ format = "json" /\ ~db /\ Dotted(MainGeometry(ft))   \* attrgetter() of an ORM path
    \/ \E e \in Leaves : IsGeometry(ft, e) /\ GeometryFails(e)
    \/ \E e \in Leaves : Unwritable(e) /\ ~IsNothing(e)

(* What is read to render: values, the objects of complex elements, the    *)
(* name of the feature; and the foreign keys that the prefetches follow.   *)
Display == <<IF ft.display = None THEN "name" ELSE ft.display>>
ReadByDatabase(e) == IsGeometry(ft, e) /\ db
Own == {e \in Leaves : e \notin {GmlName, BoundedBy} /\ ~ReadByDatabase(e)}
EndsInManager(e) == ThroughManager(ft, e) \/ (IsPlainList(ft, e) /\ Source(ft, e).kind = "reverse")
Values ==
    {Absolute(ft, e) : e \in {f \in Own : ~EndsInManager(f)}}
    \cup (IF GmlName \in Leaves \/ (format = "json" /\ ft.showName) THEN {Display} ELSE {})
    \cup (IF BoundedBy \in Leaves /\ ~db
          THEN {Absolute(ft, e) : e \in ToSet(AllGeometryElements(ft))} ELSE {})
(* The object that has the manager, when it is not the feature itself.     *)
WaysToManager(e) ==
    {SubSeq(Absolute(ft, e), 1, k - 1) :
        k \in {j \in Managers(ft, e) : j > 1 /\ \A i \in Managers(ft, e) : j <= i}}
Objects ==
    {Absolute(ft, e) : e \in {f \in Visited \ Leaves : ~EndsInManager(f)}} \cup Fetched
    \cup UNION {WaysToManager(e) : e \in {f \in Own \cup (Visited \ Leaves) : EndsInManager(f)}}
Render ==
    /\ phase = "render"
    /\ IF RenderFails THEN Fail("crashed")
       ELSE /\ reads' = UNION ({ReadsFor(a, FALSE) : a \in Values} \cup {ReadsFor(a, TRUE) : a \in Objects})
            /\ outcome' = "rendered" /\ phase' = "done"
            /\ UNCHANGED <<request, projection, query>>

Next == Bind \/ Resolve \/ Project \/ AddField \/ RemoveFields \/ Decorate \/ Query \/ Render
Done == phase = "done" /\ UNCHANGED vars
Spec == Init /\ [][Next \/ Done]_vars

-----------------------------------------------------------------------------
(* Properties.                                                             *)

(* Types of the variables.                                                 *)
TypeOK ==
    /\ phase \in {"bind", "resolve", "project", "add", "remove", "decorate", "query", "render", "done"}
    /\ outcome \in {"none", "refused", "crashed", "rendered"}
    /\ DOMAIN children = ToSet(keys)
    /\ ToSet(AllElements) \subseteq (IF phase = "bind" THEN {} ELSE Resolvable(ft))
    /\ \A k \in DOMAIN keys : \A e \in ToSet(children[keys[k]]) : Front(e) = keys[k]
    /\ \A r \in ToSet(relations) : r.path # <<>> /\ "id" \in r.loaded
    /\ Len(extra) <= 1

(* Safety: what is cached of the projection is what it holds now; add_field *)
(* and remove_fields change it after __init__ resolved the property names. *)
CachedIsCurrent == cached # None => cached = NamedElements \o extra

(* The configurations whose relations are each followed by one element.    *)
(* (A dotted attribute is not to end in the other side of a foreign key:   *)
(* it would have the relation load that foreign key from another model.)   *)
FollowedOnce ==
    LET complex == ToSet(AllComplexElements(ft))
        dotted == {e \in DOMAIN ft.fields : IsFlattened(ft, e)}
    IN  /\ \A e \in dotted : Len(e) = 1 /\ ~IsGeometry(ft, e) /\ ~IsComplex(ft, e)
                               /\ Source(ft, e).kind # "reverse"
        /\ \A d, e \in complex : Absolute(ft, d) = Absolute(ft, e) => d = e
        /\ \A e \in dotted :
               /\ \A d \in complex : ~IsPrefix(Absolute(ft, d), OrmRelation(ft, e))
                                     /\ ~IsPrefix(OrmRelation(ft, e), Absolute(ft, d))
               /\ \A d \in dotted : ~IsStrictPrefix(OrmRelation(ft, d), OrmRelation(ft, e))

(* Safety: the properties that were asked for, whatever the projection did *)
(* on the way, are the ones in the answer: all that the format shows, and  *)
(* nothing else but the geometry of GeoJSON.  (The value of an attribute   *)
(* that leads through a list is None, and so is an object with sub fields  *)
(* that is behind one: that hides these.)                                  *)
Showable(e) ==
    /\ ~IsComplex(ft, e)
    /\ format = "csv" => /\ e \notin {GmlName, BoundedBy}
                         /\ \A p \in ToSet(Nodes(e)) : ~IsMany(ft, p) \/ IsArray(ft, p)
    /\ format = "json" => ~IsGeometry(ft, e) \/ e = MainGeometry(ft)
Asked ==
    IF Given THEN ToSet(NamedElements) \cup (IF format = "json" THEN {MainGeometry(ft)} ELSE {})
    ELSE {e \in Resolvable(ft) : ~IsAttribute(e)}
LeavesAreNamed == Given => \A e \in ToSet(NamedElements) : ~IsComplex(ft, e)
AnswerHoldsWhatWasAsked ==
    outcome = "rendered" /\ "relations" \notin nulls
    /\ (\A e \in Complex(ft) : ~ThroughManager(ft, e))
        => Leaves = {e \in Asked : Showable(e)}

(* The configurations whose lists of objects have sub fields, and whose    *)
(* dotted attributes do not lead through such lists backwards.  (A list    *)
(* without sub fields is not prefetched, nor is the foreign key that a     *)
(* list is matched by when its relation is dotted.)                        *)
ListsAreNested ==
    /\ \A e \in DOMAIN ft.fields : IsComplex(ft, e) \/ Source(ft, e).kind \notin {"m2m", "reverse"}
    /\ \A e \in Flattened(ft) : \A k \in 1 .. Len(Attribute(ft, e)) - 1 :
            FieldAt(ft.model, SubSeq(Attribute(ft, e), 1, k)).kind # "reverse"

(* Safety: rendering the rows needs no queries of their own, not for the   *)
(* columns that were left out and not for the relations, apart from the    *)
(* name of the feature, which only_fields does not know of, and the        *)
(* foreign keys on the way to a list, which it leaves out with the list.   *)
(* (When the database renders the geometry of GeoJSON, and it is that of a *)
(* relation, the foreign key may be deferred along with it.)               *)
FieldsShown == IF Given THEN ToSet(NamedElements) ELSE Children(ft, Root)
WaysToLists ==
    LET lists == {e \in FieldsShown : CrossesMany(ft, e) /\ ~IsArray(ft, e)}
    IN  {f \in {Head(Absolute(ft, e)) : e \in lists} : Model[ft.model][f].kind = "fk"}
NothingIsReadRowByRow ==
    outcome = "rendered" /\ FollowedOnce /\ ListsAreNested /\ LeavesAreNamed
    /\ (db /\ format = "json" => ~Dotted(MainGeometry(ft)))
        => reads \subseteq {Display} \cup {<<f>> : f \in WaysToLists}

(* Safety: a request for known leaf properties of a feature type without   *)
(* dotted geometries is answered.  gml:boundedBy cannot be asked for, its  *)
(* value cannot be computed without the database when a geometry is that   *)
(* of a relation which is null or below a list, and CSV has no notation    *)
(* for null.  Lists of objects need sub fields: without these, GeoJSON has *)
(* no notation for them, nor GML for the other side of a foreign key.      *)
Answerable ==
    /\ FollowedOnce /\ LeavesAreNamed /\ names # <<>>
    /\ ~Dotted(MainGeometry(ft))
    /\ Given => \A e \in ToSet(NamedElements) :
            e \in Resolvable(ft) \ {BoundedBy} /\ Leads(ft.model, Absolute(ft, e))
    /\ Given => \A n \in ToSet(names) : ~NotImplementedXPath(ft, n)
    /\ ~Given => \A g \in ToSet(AllGeometryElements(ft)) : ~IsOutOfReach(g)
    /\ \A e \in Asked : ~Unwritable(e)
    /\ format = "csv" => nulls = {}
AnswerableIsAnswered ==
    phase = "done" /\ ~Misconfigured /\ Answerable => outcome = "rendered"

(* Types of one name, that of the model they are for, are alike when their *)
(* elements are, with the types of these.                                  *)
TypeOf(t, e) == IF IsComplex(t, e) THEN <<TypeName(t, e)>> ELSE <<>>
Contents(t, p) == {<<Last(e), TypeOf(t, e)>> : e \in Children(t, p)}
TypesAreAlike(t) ==
    \A d, e \in Complex(t) : TypeName(t, d) = TypeName(t, e) => Contents(t, d) = Contents(t, e)

(* Safety: DescribeFeatureType describes each element that a GML document  *)
(* has, when types of one name are alike.                                  *)
DocumentsMatchTheirSchema ==
    outcome = "rendered" /\ format = "gml" /\ TypesAreAlike(ft) =>
        \A e \in Visited : IsAttribute(e) \/ Describes(ft, e)

(* BoundedBy.get_value() takes every geometry of the feature type, with    *)
(* those of the objects a relation leads to, but not those of lists; with  *)
(* GISSERVER_USE_DB_RENDERING "the calculation is entirely performed       *)
(* within the query", over the geometries of the projection.  Expected to  *)
(* fail: those include the geometries of lists, and a join for these       *)
(* gives the feature once for every item.                                  *)
EnvelopeIsTheSame ==
    outcome = "rendered" /\ db /\ format = "gml" /\ BoundedBy \in Visited
        => envelope = {Absolute(ft, e) : e \in ToSet(AllGeometryElements(ft))}

=============================================================================
