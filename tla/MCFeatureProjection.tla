------------------------ MODULE MCFeatureProjection ------------------------
(***************************************************************************)
(* Models like those of the test suite: restaurants in cities in regions,  *)
(* with opening hours and reviews; and the ways fields can be configured.  *)
(***************************************************************************)
EXTENDS FeatureProjection

Column(kind) == [kind |-> kind, to |-> None, back |-> None]
To(kind, model) == [kind |-> kind, to |-> model, back |-> None]
Plain == Column("plain")
MCModel ==
    [Restaurant |-> [id |-> Plain, name |-> Plain, location |-> Column("geometry"),
                     area |-> Column("geometry"), tags |-> Column("array"), city |-> To("fk", "City"),
                     billing |-> To("fk", "City"), hours |-> To("m2m", "Hour"),
                     reviews |-> [kind |-> "reverse", to |-> "Review", back |-> "restaurant"]],
     City |-> [id |-> Plain, name |-> Plain, location |-> Column("geometry"), region |-> To("fk", "Region"),
               restaurants |-> [kind |-> "reverse", to |-> "Restaurant", back |-> "city"]],
     Region |-> [id |-> Plain, title |-> Plain],
     Hour |-> [id |-> Plain, day |-> Plain],
     Review |-> [id |-> Plain, text |-> Plain, restaurant |-> To("fk", "Restaurant")]]

Field == [attribute |-> <<>>, complex |-> FALSE]
Dots(attribute) == [attribute |-> attribute, complex |-> FALSE]
Nested == [attribute |-> <<>>, complex |-> TRUE]
NestedAs(attribute) == [attribute |-> attribute, complex |-> TRUE]
Type(name, model, fields) ==
    [name |-> name, model |-> model, declared |-> "fields",
     order |-> [k \in DOMAIN fields |-> fields[k][1]],
     fields |-> [e \in {fields[k][1] : k \in DOMAIN fields} |->
                    fields[CHOOSE k \in DOMAIN fields : fields[k][1] = e][2]],
     geometry |-> <<>>, display |-> None, showName |-> TRUE]

(* Nested and flattened relations, and all kinds of fields.                *)
Full == [Type("full", "Restaurant",
              << <<<<"name">>, Field>>, <<<<"location">>, Field>>, <<<<"area">>, Field>>, <<<<"tags">>, Field>>,
                 <<<<"hours">>, Nested>>, <<<<"hours", "day">>, Field>>,
                 <<<<"city">>, Nested>>, <<<<"city", "name">>, Field>>,
                 <<<<"city", "location">>, Field>>,
                 <<<<"city", "region">>, Nested>>, <<<<"city", "region", "title">>, Field>>,
                 <<<<"reviews">>, Nested>>, <<<<"reviews", "text">>, Field>> >>)
         EXCEPT !.display = "name"]
Flat == Type("flat", "Restaurant",
             << <<<<"id">>, Field>>, <<<<"location">>, Field>>,
                <<<<"town">>, Dots(<<"city", "name">>)>>, <<<<"reviews">>, Nested>>, <<<<"reviews", "text">>, Field>> >>)
Region == Type("regional", "Restaurant",
             << <<<<"location">>, Field>>, <<<<"region">>, Dots(<<"city", "region", "title">>)>> >>)
(* Both for one relation, and a dotted attribute further down.             *)
Both == Type("both", "Restaurant",
             << <<<<"location">>, Field>>, <<<<"town">>, Dots(<<"city", "region", "title">>)>>,
                <<<<"city">>, Nested>>, <<<<"city", "name">>, Field>> >>)
Twice == [Type("twice", "Restaurant",
             << <<<<"location">>, Field>>, <<<<"town">>, Dots(<<"city", "name">>)>>,
                <<<<"city">>, Nested>>, <<<<"city", "location">>, Field>> >>)
          EXCEPT !.showName = FALSE]
Deep == Type("deep", "Restaurant",
             << <<<<"location">>, Field>>,
                <<<<"city">>, Nested>>, <<<<"city", "name">>, Field>>,
                <<<<"city", "area">>, Dots(<<"region", "title">>)>> >>)
(* The geometry is of another object, nested or dotted.                    *)
Review == Type("review", "Review",
             << <<<<"text">>, Field>>, <<<<"restaurant">>, Nested>>,
                <<<<"restaurant", "location">>, Field>>, <<<<"restaurant", "name">>, Field>> >>)
Located == [Type("located", "Restaurant", << <<<<"name">>, Field>>, <<<<"place">>, Dots(<<"city", "location">>)>> >>)
            EXCEPT !.geometry = <<"city", "location">>]
(* Geometries of a list, and relations below it.                           *)
City == Type("city", "City",
             << <<<<"location">>, Field>>, <<<<"restaurants">>, Nested>>,
                <<<<"restaurants", "location">>, Field>>, <<<<"restaurants", "tags">>, Field>>,
                <<<<"restaurants", "billing">>, Nested>>,
                <<<<"restaurants", "billing", "name">>, Field>> >>)
(* A list below a relation.                                                *)
Opening == Type("opening", "Review",
             << <<<<"restaurant">>, Nested>>, <<<<"restaurant", "location">>, Field>>,
                <<<<"restaurant", "hours">>, Nested>>, <<<<"restaurant", "hours", "day">>, Field>> >>)
(* Two fields of one model.                                                *)
Pair == Type("pair", "Restaurant",
             << <<<<"location">>, Field>>, <<<<"city">>, Nested>>, <<<<"city", "name">>, Field>>,
                <<<<"payer">>, NestedAs(<<"billing">>)>>, <<<<"payer", "location">>, Field>> >>)
Alike == Type("alike", "Restaurant",
             << <<<<"location">>, Field>>, <<<<"city">>, Nested>>, <<<<"city", "region">>, Nested>>,
                <<<<"city", "region", "title">>, Field>>,
                <<<<"payer">>, NestedAs(<<"billing">>)>>, <<<<"payer", "region">>, Nested>>,
                <<<<"payer", "region", "title">>, Field>> >>)
(* A list's values through a dotted attribute, and relations as plain      *)
(* values; and lists without sub fields, which are not prefetched.         *)
ManyDots == Type("dotted", "Restaurant",
             << <<<<"location">>, Field>>, <<<<"hour">>, Dots(<<"hours", "day">>)>>,
                <<<<"payer">>, Dots(<<"billing", "name">>)>>, <<<<"city">>, Field>> >>)
PlainLists == Type("listed", "Restaurant",
             << <<<<"location">>, Field>>, <<<<"hours">>, Field>>, <<<<"review">>, Dots(<<"reviews", "text">>)>> >>)
(* The other side of a foreign key as a plain value, at the end of a       *)
(* dotted attribute, and on the way to an object; a geometry below a list. *)
Managed == Type("managed", "Restaurant",
             << <<<<"location">>, Field>>, <<<<"critics">>, Dots(<<"reviews">>)>>,
                <<<<"rivals">>, Dots(<<"city", "restaurants">>)>>,
                <<<<"reviewed">>, NestedAs(<<"reviews", "restaurant">>)>>, <<<<"reviewed", "name">>, Field>> >>)
Chain == Type("below", "City",
             << <<<<"location">>, Field>>, <<<<"restaurants">>, Nested>>, <<<<"restaurants", "billing">>, Nested>>,
                <<<<"restaurants", "billing", "location">>, Field>> >>)
(* Not listed, and not to be found.                                        *)
AllOf == [Type("all", "Restaurant", <<>>) EXCEPT !.declared = "__all__", !.geometry = <<"area">>]
Bare == [Type("bare", "City", <<>>) EXCEPT !.declared = "geometry"]
Wrong == Type("wrong", "Restaurant", << <<<<"location">>, Field>>, <<<<"city.name">>, Field>> >>)
NoGeometry == Type("none", "Review", << <<<<"text">>, Field>> >>)
MCFeatureTypes ==
    {Full, Flat, Region, Both, Twice, Deep, Review, Located, City, Opening, Pair, Alike,
     ManyDots, PlainLists, Managed, Chain, AllOf, Bare, Wrong, NoGeometry}

XPaths(f) ==
    DOMAIN Configured(f).fields \cup {GmlName, BoundedBy, <<"@gml:id">>}
Some(f) == {<<"unknown">>, <<f.name, Head(Configured(f).order)[1]>>, <<"location", "[]">>, <<"//", "location">>}
MCPropertyNames ==
    [name \in {f.name : f \in MCFeatureTypes} |->
        LET f == CHOOSE t \in MCFeatureTypes : t.name = name
        IN  IF f \in {Wrong, NoGeometry} THEN {None}
            ELSE {None, <<>>} \cup {<<x>> : x \in XPaths(f) \cup Some(f)}
                 \cup {<<x, y>> : x, y \in DOMAIN Configured(f).fields}]
=============================================================================
