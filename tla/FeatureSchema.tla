--------------------------- MODULE FeatureSchema ---------------------------
(***************************************************************************)
(* The schema of a feature type: the elements that its configured fields   *)
(* become, the types they have, where their values are in the Django       *)
(* models, how an XPath finds them, and what DescribeFeatureType says of   *)
(* them.  Pure definitions; FeatureProjection uses them.                   *)
(*                                                                         *)
(* An element is the path of names that leads to it from the feature, the  *)
(* feature itself is the empty path.  A feature type is a record:          *)
(*   name       its name                                                   *)
(*   model      the model of its queryset                                  *)
(*   declared   "fields", or "__all__" or "geometry" for what is expanded  *)
(*              from the model when fields is "__all__" or not given       *)
(*   order      the paths of its fields, each followed by its sub fields   *)
(*   fields     [path -> [attribute, complex]], the attribute a sequence   *)
(*              of model fields (the dotted model_attribute), or empty     *)
(*   geometry   geometry_field_name as such a sequence, or empty           *)
(*   display    display_field_name, or None                                *)
(*   showName   show_name_field                                            *)
(***************************************************************************)
EXTENDS Integers, SequencesExt

CONSTANTS
    Model,  \* the models: [model -> [field -> [kind, to, back]]]
    None

Root == <<>>
GmlName == <<"gml:name">>
BoundedBy == <<"gml:boundedBy">>
GmlId(node) == Append(node, "@gml:id")
IsAttribute(e) == e # Root /\ Last(e) = "@gml:id"
(* The elements of a sequence that are in a set, and each element once.    *)
Only(seq, set) == FlattenSeq([k \in DOMAIN seq |-> IF seq[k] \in set THEN <<seq[k]>> ELSE <<>>])
WithoutRepeats(seq) ==
    FlattenSeq([k \in DOMAIN seq |->
        IF \E j \in 1 .. k - 1 : seq[j] = seq[k] THEN <<>> ELSE <<seq[k]>>])

-----------------------------------------------------------------------------
(* Django: fields of models.  The kinds are "plain", "geometry", "array",  *)
(* "fk", "m2m", and "reverse" for the other side of the foreign key back.  *)
(* (The other sides of an m2m and of a one-to-one field are left out.)     *)

IsRelation(field) == field.kind \in {"fk", "m2m", "reverse"}
(* What Django makes sure of: a model has a primary key, a relation leads  *)
(* to a model, and the other side of one is named after its foreign key.   *)
ASSUME ModelAssumption ==
    /\ None \notin DOMAIN Model
    /\ \A m \in DOMAIN Model :
        /\ "id" \in DOMAIN Model[m]
        /\ \A f \in DOMAIN Model[m] :
            LET field == Model[m][f]
            IN  /\ IF IsRelation(field) THEN field.to \in DOMAIN Model ELSE field.to = None
                /\ field.kind = "reverse" => /\ field.back \in DOMAIN Model[field.to]
                                            /\ Model[field.to][field.back].kind = "fk"

(* The models on the way along an attribute; None where there is no way.   *)
ModelsAlong(model, attribute) ==
    LET at[k \in 0 .. Len(attribute)] ==
            IF k = 0 THEN model
            ELSE IF at[k - 1] # None /\ attribute[k] \in DOMAIN Model[at[k - 1]]
            THEN Model[at[k - 1]][attribute[k]].to ELSE None
    IN  at
Leads(model, attribute) ==
    /\ attribute # <<>>
    /\ LET at == ModelsAlong(model, attribute)
       IN  /\ at[Len(attribute) - 1] # None
           /\ Last(attribute) \in DOMAIN Model[at[Len(attribute) - 1]]
FieldAt(model, attribute) == Model[ModelsAlong(model, attribute)[Len(attribute) - 1]][Last(attribute)]
ModelBehind(model, attribute) == ModelsAlong(model, attribute)[Len(attribute)]

-----------------------------------------------------------------------------
(* FeatureField and ComplexFeatureField.                                   *)

(* _get_model_fields() and FeatureType.fields: what is taken when the      *)
(* fields are not listed: the columns of the model, or a geometry of it.   *)
ModelFields(ft) ==
    LET of == Model[ft.model]
    IN  IF ft.declared = "__all__" THEN {f \in DOMAIN of : of[f].kind \notin {"m2m", "reverse"}}
        ELSE {CHOOSE f \in DOMAIN of : of[f].kind = "geometry"
                                       /\ ft.geometry \in {<<>>, <<f>>}}
Configured(ft) ==
    IF ft.declared = "fields" THEN ft
    ELSE LET names == ModelFields(ft)
         IN  [ft EXCEPT !.order = SetToSeq({<<f>> : f \in names}),
                        !.fields = [e \in {<<f>> : f \in names} |->
                                       [attribute |-> <<>>, complex |-> FALSE]]]

Attribute(ft, e) ==
    CASE IsAttribute(e) -> <<"id">>
      [] e = GmlName -> <<IF ft.display = None THEN "name" ELSE ft.display>>
      [] e = BoundedBy -> <<"boundedBy">>
      [] OTHER -> IF ft.fields[e].attribute = <<>> THEN <<Last(e)>> ELSE ft.fields[e].attribute
(* absolute_model_attribute, and with it orm_path.                         *)
Absolute(ft, e) == FlattenSeq([k \in 1 .. Len(e) |-> Attribute(ft, SubSeq(e, 1, k))])

IsComplex(ft, e) == e \in DOMAIN ft.fields /\ ft.fields[e].complex
HasSource(ft, e) == e \notin {BoundedBy} /\ (e = GmlName => ft.display # None /\ ft.showName)
Source(ft, e) == FieldAt(ft.model, Absolute(ft, e))
(* bind() and target_model: an attribute leads through relations to a      *)
(* field, and a field with sub fields is a relation itself.                *)
Bindable(ft, e) ==
    /\ Leads(ft.model, Absolute(ft, e))
    /\ IsComplex(ft, e) => IsRelation(Source(ft, e))

(* What a feature type is: the elements have names that are not those of   *)
(* GML, and what has sub fields is complex and comes before them.  A       *)
(* model has finitely many fields; when they are not listed and no         *)
(* geometry is named, it has one.                                          *)
IsFeatureType(ft) ==
    /\ ft.order \in Seq(DOMAIN ft.fields) /\ DOMAIN ft.fields \subseteq ToSet(ft.order)
    /\ \A e \in DOMAIN ft.fields : ft.fields[e].attribute \in Seq(ToSet(ft.fields[e].attribute))
    /\ \A k \in DOMAIN ft.order :
        LET e == ft.order[k]
        IN  /\ e \in Seq(ToSet(e)) /\ e \notin {Root, GmlName, BoundedBy} /\ ~IsAttribute(e)
            /\ Len(e) > 1 => \E j \in 1 .. k - 1 :
                                ft.order[j] = Front(e) /\ ft.fields[Front(e)].complex
IsConfiguration(ft) ==
    IF ft.declared = "fields" THEN IsFeatureType(ft)
    ELSE LET of == Model[ft.model]
         IN  /\ {"order", "fields"} \subseteq DOMAIN ft
             /\ IsFiniteSet(DOMAIN of) /\ DOMAIN of \cap {"gml:name", "gml:boundedBy", "@gml:id"} = {}
             /\ ft.declared = "__all__"
                \/ \E f \in DOMAIN of : of[f].kind = "geometry" /\ ft.geometry \in {<<>>, <<f>>}

-----------------------------------------------------------------------------
(* XsdElement: what the elements of a feature type are.                    *)

IsGeometry(ft, e) ==
    e = BoundedBy \/ (e \in DOMAIN ft.fields /\ ~IsComplex(ft, e) /\ Source(ft, e).kind = "geometry")
IsArray(ft, e) == e \in DOMAIN ft.fields /\ Source(ft, e).kind = "array"
IsMany(ft, e) ==
    e \in DOMAIN ft.fields /\ ~IsGeometry(ft, e) /\ Source(ft, e).kind \in {"array", "m2m", "reverse"}
IsFlattened(ft, e) == Len(Attribute(ft, e)) > 1
OrmRelation(ft, e) == Front(Absolute(ft, e))

(* Mutant: everything below it.                                            *)
Below(ft, node) == {e \in DOMAIN ft.fields : IsStrictPrefix(node, e)}
Elements_Below(ft, node) == Only(ft.order, Below(ft, node))
Children(ft, node) == {e \in DOMAIN ft.fields : Front(e) = node}
Elements(ft, node) == Only(ft.order, Children(ft, node))
BaseElements(ft) == (IF ft.showName THEN <<GmlName>> ELSE <<>>) \o <<BoundedBy>>
ElementsIncludingBase(ft) == BaseElements(ft) \o Elements(ft, Root)
Complex(ft) == {e \in DOMAIN ft.fields : IsComplex(ft, e)}
AllComplexElements(ft) == Only(ft.order, Complex(ft))
Flattened(ft) == {e \in DOMAIN ft.fields : IsFlattened(ft, e)}
FlattenedElements(ft) == Only(Elements(ft, Root), Flattened(ft))

Geometries(ft) == {e \in DOMAIN ft.fields : IsGeometry(ft, e)}
GeometryElements(ft, node) == Only(Elements(ft, node), Geometries(ft))
NestedGeometries(ft) == {e \in Geometries(ft) : Len(e) > 1 /\ ~IsMany(ft, Front(e))}
AllGeometryElements(ft) == GeometryElements(ft, Root) \o Only(ft.order, NestedGeometries(ft))
GeometriesNamed(ft) == {e \in Geometries(ft) : ft.geometry \in {<<>>, Absolute(ft, e)}}
MainGeometries(ft) == Only(AllGeometryElements(ft), GeometriesNamed(ft))
MainGeometry(ft) == Head(MainGeometries(ft))

-----------------------------------------------------------------------------
(* resolve_element(): an XPath is a sequence of names.  "//" stands for    *)
(* the notations that are not supported, "[]" for a condition.             *)

Nodes(e) == [k \in 1 .. Len(e) |-> SubSeq(e, 1, k)]
Resolvable(ft) ==
    DOMAIN ft.fields \cup ToSet(BaseElements(ft))
    \cup {GmlId(e) : e \in {Root} \cup Complex(ft)}
Resolved(ft, xpath) ==
    LET names == Only(xpath, ToSet(xpath) \ {"[]"})
    IN  IF Head(names) = ft.name THEN Tail(names) ELSE names
NotImplementedXPath(ft, xpath) ==
    Contains(xpath, "//") \/ (Contains(xpath, "[]") /\ Resolved(ft, xpath) \in Resolvable(ft))
UnknownXPath(ft, xpath) == ~Contains(xpath, "//") /\ Resolved(ft, xpath) \notin Resolvable(ft)

(* XPathMatch.is_many.                                                     *)
CrossesMany(ft, e) == \E k \in 1 .. Len(e) : IsMany(ft, SubSeq(e, 1, k))

-----------------------------------------------------------------------------
(* get_value(): the attribute is followed with attrgetter(), which finds   *)
(* not the objects but their manager where it leads to several.  A manager *)
(* has no attributes of a model, so what is behind it is always None.      *)

IsManager(ft, attribute) == FieldAt(ft.model, attribute).kind \in {"m2m", "reverse"}
Managers(ft, e) ==   \* on the way from the object of the parent, with the value
    {k \in Len(Absolute(ft, Front(e))) + 1 .. Len(Absolute(ft, e)) :
        IsManager(ft, SubSeq(Absolute(ft, e), 1, k))}
ThroughManager(ft, e) == \E k \in Managers(ft, e) : k < Len(Absolute(ft, e))
NeverThere(ft, e) == \E k \in 1 .. Len(e) : ThroughManager(ft, SubSeq(e, 1, k))
(* A list of objects without sub fields: of those of an m2m, the value is  *)
(* the list; of the other side of a foreign key, it is the manager itself. *)
IsPlainList(ft, e) ==
    e \in DOMAIN ft.fields /\ ~IsComplex(ft, e) /\ IsManager(ft, Absolute(ft, e))

-----------------------------------------------------------------------------
(* DescribeFeatureType: a type is named after its model, and each name is  *)
(* described once, by the first element found with it.                     *)

TypeName(ft, e) == ModelBehind(ft.model, Absolute(ft, e))
Position(ft, e) == CHOOSE k \in DOMAIN ft.order : ft.order[k] = e
(* The types that are found at a level, when some are found above it: the  *)
(* elements of a type are looked at when it is found, and not again.       *)
NewTypes(ft, level, above) ==
    {e \in Complex(ft) : /\ Len(e) = level
                         /\ level = 1 \/ Front(e) \in above
                         /\ \A d \in above : TypeName(ft, d) # TypeName(ft, e)}
FirstTypes(ft, found) ==
    {e \in found : \A d \in found :
        TypeName(ft, d) = TypeName(ft, e) => Position(ft, e) <= Position(ft, d)}
(* Mutant: without the sub elements of the types that are found.           *)
DescribedTypes_TopOnly(ft) == FirstTypes(ft, NewTypes(ft, 1, {}))
DescribedTypes(ft) ==
    LET types[level \in 0 .. Len(ft.order)] ==
            IF level = 0 THEN {}
            ELSE types[level - 1] \cup FirstTypes(ft, NewTypes(ft, level, types[level - 1]))
    IN  types[Len(ft.order)]
Describes(ft, e) ==
    \/ Len(e) = 1
    \/ \E d \in DescribedTypes(ft) :
            TypeName(ft, d) = TypeName(ft, Front(e)) /\ Append(d, Last(e)) \in DOMAIN ft.fields
=============================================================================
