----------------------------- MODULE MongoCases -----------------------------
(***************************************************************************)
(* MongoDB connections and calls to check Verdicts with: three collections,    *)
(* one of them a catalog, every stage alone, after every other and nested, and *)
(* what may be wrong around the values of a call.                              *)
(***************************************************************************)
EXTENDS MongoMeaning

TheStored ==
    [users  |-> {<<"_id">>, <<"city">>, <<"email">>, <<"profile", "city">>, <<"profile", "email">>},
     orders |-> {<<"_id">>, <<"user">>, <<"email">>}]
TheCatalogs == {"system.views"}
TheMethods ==
    [read |-> {"find", "findOne", "aggregate", "countDocuments", "distinct"},
     write |-> {"insertOne"}, javascript |-> {"mapReduce"},
     chain |-> {"limit", "skip", "sort", "toArray"}]
TheStageOps ==
    {"match", "project", "addFields", "unset", "group", "sortByCount", "sort", "lookup", "unionWith",
     "facet", "unwind", "replaceRoot", "replaceWith", "count", "limit", "densify", "fill", "bucket",
     "setWindowFields", "graphLookup", "redact", "sample"}
TheOperators ==
    {"eq", "and", "expr", "elemMatch", "push", "first", "concat", "mergeObjects", "objectToArray",
     "getField", "literal", "count", "map", "cond", "slice"}

MongoPolicy(mode, rules) == [engine |-> "mongodb", mode |-> mode, rules |-> rules]
TheMongoPolicies ==
    {MongoPolicy("deny", {}), MongoPolicy("deny", {<<"users", "email">>}),
     MongoPolicy("mask", {<<"users", "email">>}), MongoPolicy("mask", {<<"orders", "email">>})}

(***************************************************************************)
(* Values: a tree is its nodes in order, the first one its root             *)
(***************************************************************************)
Node(kind, text) == <<[up |-> 0, key |-> << >>, kind |-> kind, text |-> text]>>
Text(path) == Node("string", path)
Flag(n) == Node("flag", <<n>>)
Other == Node("other", << >>)
Typed == Node("typed", << >>)

\* Hangs tree t, after `by` nodes, under node `up` as `key`.
Hung(t, by, up, key) ==
    [i \in DOMAIN t |-> IF t[i].up = 0 THEN [t[i] EXCEPT !.up = up, !.key = key]
                        ELSE [t[i] EXCEPT !.up = @ + by]]
Made1(kind, parts) ==
    FoldLeft(LAMBDA t, part : t \o Hung(part[2], Len(t), 1, part[1]), Node(kind, << >>), parts)
Doc(parts) == Made1("doc", parts)
Array(items) == Made1("array", [i \in DOMAIN items |-> << << >>, items[i] >>])
Op(name, value) == Doc(<< << <<"$", name>>, value >> >>)
Set1(field, value) == Doc(<< <<field, value>> >>)
Set2(field, value, field2, value2) == Doc(<< <<field, value>>, <<field2, value2>> >>)

Argument(t, by, name) == Hung(t, by, 0, <<name>>)

CallOn(collection, method, first, second, args) ==
    [text |-> "ok", collection |-> collection, method |-> method, args |-> args, chain |-> << >>,
     key |-> << >>,
     tree |-> Argument(first, 0, "first") \o Argument(second, Len(first), "second")]

Nil == << >>
Aggregate(stages) == CallOn("users", "aggregate", Array(stages), Nil, 1)

(***************************************************************************)
(* Stages                                                                   *)
(***************************************************************************)
City == <<"city">>
Email == <<"email">>
Profile == <<"profile">>
Refs == {<<"$", "city">>, <<"$", "email">>, <<"$", "profile">>, <<"$", "profile", "email">>,
         <<"$$", "ROOT">>, <<"$$", "ROOT", "email">>}

Filters ==
    {Set1(f, Other) : f \in {City, Email, Profile, <<"profile", "email">>, <<"x">>, <<"o", "email">>}}
    \cup {Set1(Profile, Set1(Email, Other)), Set1(Profile, Op("elemMatch", Set1(Email, Other))),
          Op("and", Array(<<Set1(City, Other), Set1(Email, Other)>>)),
          Op("expr", Op("eq", Array(<<Text(<<"$", "email">>), Other>>))), Op("where", Text(<<"js">>)),
          Set1(City, Op("code", Typed)), Set1(City, Op("oid", Typed)), Set1(City, Op("oid", Other)),
          Set1(City, Op("binary", Typed)), Set1(City, Node("named", << >>)), Set1(City, Node("malformed", << >>)), Set1(City, Op("newop", Other)), Op("comment", Other),
          Set2(City, Other, City, Flag("1")), Set1(<<"pipeline">>, Array(<<Set1(Email, Other)>>)),
          Set1(City, Set1(City, Set1(City, Set1(City, Set1(City, Other)))))}

Projections1 ==
    {Set1(f, Flag(n)) : f \in {City, Email, Profile}, n \in {"0", "1"}}
    \cup {Set1(<<"x">>, Text(r)) : r \in Refs}
    \cup {Set1(Email, Text(<<"$", "city">>)), Set1(Profile, Set1(Email, Flag("1"))),
          Set1(<<"x">>, Op("objectToArray", Text(<<"$", "profile">>))),
          Set1(<<"x">>, Op("concat", Array(<<Text(<<"$", "email">>)>>))),
          Set1(<<"x">>, Op("getField", Text(Email))), Set1(Profile, Op("slice", Other))}

Join(from, local, foreign, as) ==
    Op("lookup", Doc(<< << <<"from">>, from >>, << <<"localField">>, Text(local) >>,
                        << <<"foreignField">>, Text(foreign) >>, << <<"as">>, Text(as) >> >>))

Mapped(r) == Op("map", Set2(<<"input">>, Text(<<"$", "profile">>), <<"in">>, Text(r)))
Sent1 == Set1(<<"x">>, Op("push", Text(<<"$", "profile">>)))

Further ==
    {Op("addFields", Set1(<<"x">>, Mapped(r))) : r \in {<<"$$", "this">>, <<"$$", "this", "email">>}}
    \cup {Op("redact", Op("cond", Text(r))) : r \in {<<"$", "city">>, <<"$", "email">>}}
    \cup {Op("bucket", Set2(<<"groupBy">>, Text(r), <<"output">>, Sent1)) :
            r \in {<<"$", "city">>, <<"$", "email">>}}
    \cup {Op("setWindowFields", Set2(<<"sortBy">>, Set1(f, Flag("1")), <<"output">>, Sent1)) :
            f \in {City, Email}}
    \cup {Op("graphLookup", Doc(<< << <<"from">>, Text(<<"orders">>) >>, << <<"startWith">>, Text(<<"$", "city">>) >>,
                << <<"connectToField">>, Text(f) >>, << <<"as">>, Text(<<"o">>) >> >>)) : f \in {<<"user">>, Email}}
    \cup {Op("lookup", Doc(<< << <<"from">>, Text(<<"orders">>) >>,
                << <<"let">>, Set1(<<"v">>, Text(<<"$", "profile">>)) >>,
                << <<"pipeline">>, Array(<<Op("addFields", Set1(<<"x">>, Text(<<"$$", "v">>)))>>) >>,
                << <<"as">>, Text(<<"o">>) >> >>)), Op("sample", Other)}

Plain1 == Further \cup
    {Op("match", f) : f \in Filters} \cup {Op("project", f) : f \in Projections1}
    \cup {Op("sort", Set1(f, Flag("1"))) : f \in {City, Email, <<"x">>}}
    \cup {Op("unset", Text(f)) : f \in {City, Email}} \cup {Op("unset", Array(<<Text(Email)>>))}
    \cup {Op("addFields", Set1(<<"x">>, Text(r))) : r \in Refs}
    \cup {Op("group", Set2(<<"_id">>, Text(r), <<"x">>, Op("push", Text(s)))) :
            r \in {<<"$", "city">>, <<"$", "email">>}, s \in Refs}
    \cup {Op("sortByCount", Text(r)) : r \in Refs}
    \cup {Op("unwind", Text(r)) : r \in {<<"$", "email">>, <<"$", "profile">>}}
    \cup {Op("unwind", Set2(<<"path">>, Text(<<"$", "city">>), <<"includeArrayIndex">>, Text(Email)))}
    \cup {Op("count", Text(f)) : f \in {<<"n">>, Email}}
    \cup {Op("replaceRoot", Set1(<<"newRoot">>, Text(<<"$", "profile">>))),
          Op("replaceWith", Set1(<<"x">>, Text(<<"$", "email">>))),
          Op("limit", Other), Op("densify", Set1(<<"field">>, Text(Email))), Op("out", Text(<<"t">>)),
          Op("merge", Text(<<"t">>)), Op("currentOp", Doc(<< >>)), Op("function", Text(<<"js">>)),
          Join(Text(<<"orders">>), City, Email, <<"o">>), Join(Text(<<"orders">>), City, <<"user">>, <<"o">>),
          Join(Text(<<"system.views">>), City, City, <<"o">>),
          Join(Op("oid", Typed), City, City, <<"o">>),
          Join(Set2(<<"db">>, Text(<<"d">>), <<"coll">>, Text(<<"c">>)), City, City, <<"o">>),
          Op("unionWith", Text(<<"orders">>)), Op("unionWith", Text(<<"system.views">>)),
          Set1(<<"pipeline">>, Array(<<Set1(Email, Other)>>)), Set2(City, Other, Email, Other), Other}

Few ==
    {Op("match", Set1(City, Other)), Op("match", Set1(Email, Other)),
     Op("project", Set1(Email, Flag("1"))), Op("project", Set1(<<"x">>, Text(<<"$", "profile">>))),
     Op("sort", Set1(<<"x">>, Flag("1"))), Op("out", Text(<<"t">>)), Op("limit", Other),
     Op("addFields", Set1(<<"x">>, Text(<<"$", "email">>))),
     Op("sortByCount", Text(<<"$", "email">>)),
     Op("replaceRoot", Set1(<<"newRoot">>, Text(<<"$", "profile">>)))}

Nested2 ==
    {Op("facet", Set1(f, Array(<<s>>))) : f \in {<<"f">>, Email}, s \in Few}
    \cup {Op("facet", Set1(<<"f">>, Other))}
    \cup {Op("unionWith", Set2(<<"coll">>, Text(<<k>>), <<"pipeline">>, Array(<<s>>))) :
            k \in {"orders", "users"}, s \in Few}
    \cup {Op("facet", Set1(<<"f">>, Array(<<Op("unionWith",
            Set2(<<"coll">>, Text(<<"orders">>), <<"pipeline">>, Array(<<s>>)))>>))) : s \in Few}

Pipelines ==
    {<<s>> : s \in Plain1 \cup Nested2} \cup {<<s, t>> : s \in Plain1 \cup Nested2, t \in Few}
    \cup {<<s, t>> : s \in Few, t \in Plain1 \cup Nested2}

(***************************************************************************)
(* Calls                                                                    *)
(***************************************************************************)
Find(filter, second, args) == CallOn("users", "find", filter, second, args)
Everything == Find(Doc(<< >>), Nil, 1)

\* find().sort(t): the document is a value of the call too.
Sorted1(c, t) ==
    [c EXCEPT !.chain = Append(@, [name |-> "sort", arg |-> "doc", n |-> 0]),
              !.tree = @ \o Argument(t, Len(@), "sort")]
Chained(c, names) ==
    [c EXCEPT !.chain = [i \in DOMAIN names |-> [name |-> names[i][1], arg |-> names[i][2], n |-> names[i][3]]]]
Distinct(key, filter) == [CallOn("users", "distinct", Nil, filter, 2) EXCEPT !.key = key]

TheMongoCalls ==
    {Aggregate(s) : s \in Pipelines}
    \cup {Find(f, Nil, 1) : f \in Filters} \cup {Find(Doc(<< >>), q, 2) : q \in Projections1}
    \cup {Sorted1(Everything, Set1(f, Flag("1"))) : f \in {City, Email}} \cup {Sorted1(Everything, Doc(<< >>))}
    \cup {CallOn("users", "countDocuments", f, Nil, 1) : f \in Filters}
    \cup {Distinct(k, f) : k \in {City, Email, Profile, <<"profile", "email">>, << >>},
                           f \in {Doc(<< >>), Set1(Email, Other)}}
    \cup {Chained(c, calls) : c \in {Everything, [Everything EXCEPT !.method = "findOne"], Aggregate(<< >>)},
          calls \in {<< <<"limit", "int", n>> >> : n \in 0..3}
                    \cup {<< <<"limit", "int", 1>>, <<"limit", "int", 2>> >>, << <<"skip", "int", 1>> >>,
                          << <<"skip", "int", -1>> >>, << <<"toArray", "none", 0>> >>,
                          << <<"toArray", "int", 0>> >>, << <<"explain", "none", 0>> >>}}
    \cup {[Everything EXCEPT !.text = "broken"], [Everything EXCEPT !.text = "panic"], [Everything EXCEPT !.collection = None],
          [Everything EXCEPT !.collection = "system.views"], [Everything EXCEPT !.args = 3],
          Find(Other, Nil, 1)}
    \cup {[Everything EXCEPT !.method = m] : m \in {"insertOne", "mapReduce", "watch"}}

=============================================================================
