-------------------------- MODULE MCFunctionMode --------------------------
(* The jobs of the FunctionMode runs, in families: one per value type, one *)
(* per kind of observation, identities, order, classes, and bad metadata.  *)
EXTENDS FunctionMode

CONSTANTS MaxInt, MaxLong

ASSUME WidthAssumption == MaxInt \in Nat /\ MaxLong \in Nat /\ MaxInt < MaxLong

(* The operators of HarnessTypes for the parameters of FunctionMode.       *)
Types == INSTANCE HarnessTypes

MCResolves(t)              == Types!Resolve(t)
MCPythonElement(t)         == Types!pythonElement(t)
MCCanonical(t, j)          == Types!CanonicalJSON(t, j)
MCCanonicalSorted(t, x)    == Types!CanonicalUnordered(t, x)
MCLiteral(t, j)            == Types!GenerateLiteral(t, j)
MCPythonLiteral(t, j)      == Types!buildPython(t, j)
MCCppPrints(t)             == Types!cppPrintable(t)
MCCppText(t, v)            == Types!serializeCpp(t, v)
MCPythonText(t, v)         == Types!serializePython(t, v)
MCObjectsOf(p)             == Types!Objects(p)
MCSpoiled(t, p)            == Types!Tied(t, p)
MCEqualValues(t, v, w)     == Types!SameValue(t, v, w)
MCEqualBags(t, v, w)       == Types!SameBag(t, v, w)
MCTextIsAgreed(lang, t, v) == Types!AgreedText(lang, t, v)
MCLevelOrderIsOwn(t, v)    == Types!OwnLevelOrder(t, v)
MCIsNoStructure(t, p)      == Types!notAStructure(t, p)

----------------------------------------------------------------------------
Languages == {"cpp", "python"}

Ints(s)     == Arr([i \in DOMAIN s |-> Num(s[i])])
Rnd(v, r)   == Obj([values |-> Ints(v), random |-> Arr(r)])
Grf(v, n)   == Obj([values |-> Ints(v), neighbors |-> Arr([i \in DOMAIN n |-> Ints(n[i])])])
Tree(s)     == Arr([i \in DOMAIN s |-> IF s[i] = -1 THEN Null ELSE Num(s[i])])

(* Valid JSON of a type: also null, an empty structure, a tree with        *)
(* trailing nulls, one with an orphan, a graph not numbered by level.      *)
Good(t) ==
  CASE t.name = "int"            -> {Num(0), Num(MaxInt)}
    [] t.name = "long long"      -> {Num(MaxLong), Num(-(MaxLong + 1))}
    [] t.name = "double"         -> {Num(1), Num(100000), Dec(5, -1), Dec(1, -4)}
    [] t.name = "bool"           -> {Bool(TRUE), Bool(FALSE), Null}
    [] t.name = "string"         -> {Str(s) : s \in Types!Strings} \cup {Null}
    [] t.name = "ListNode"       -> {Null, Arr(<<>>), Ints(<<1, 1>>), Ints(<<1, 0>>)}
    [] t.name \in {"RandomListNode", "Node"} ->
         {Null, Rnd(<<0, 0>>, <<Num(1), Null>>), Rnd(<<0, 0>>, <<Null, Num(1)>>)}
    [] t.name = "TreeNode"       -> {Arr(<<>>), Tree(<<0, -1, 1>>), Tree(<<0, 1, -1, -1>>),
                                     Tree(<<0, -1, 1, 0>>), Tree(<<0, 1, 1>>), Tree(<<0, -1, -1, 1>>)}
    [] t.name = "GraphNode"      -> {Null, Grf(<<0, 1, 0, 1>>, <<<<2, 1>>, <<0>>, <<3>>, <<>>>>),
                                     Grf(<<0, 0, 1, 1>>, <<<<1, 2>>, <<3>>, <<0>>, <<>>>>),
                                     Grf(<<0>>, <<<<0>>>>)}
    [] t = Optional(Scalar("int")) -> {Null, Num(0)}
    [] t.name = "optional"       -> {Null, Arr(<<>>)}
    [] t.name = "vector" /\ t.args[1].ptr -> {Arr(<<>>), Arr(<<Null, Ints(<<1>>)>>), Arr(<<Ints(<<1>>), Null>>)}
    [] t.name = "vector" /\ t.args[1].name = "optional" -> {Arr(<<>>), Arr(<<Null>>), Arr(<<Arr(<<>>)>>)}
    [] t.name = "vector"         -> {Null, Ints(<<0, 0, 1>>), Ints(<<0, 1, 1>>), Ints(<<1, 0, 0>>)}
    [] OTHER                     -> {Null}

(* JSON that is not of the type. *)
Bad(t) ==
  CASE t.name = "int"            -> {Num(MaxInt + 1), Str("ascii")}
    [] t.name = "long long"      -> {Num(MaxLong + 1)}
    [] t.name \in {"RandomListNode", "Node"} -> {Rnd(<<0>>, <<Num(1)>>), Rnd(<<0>>, <<>>), Ints(<<0>>)}
    [] t.name = "GraphNode"      -> {Grf(<<0, 1>>, <<<<>>, <<0>>>>), Grf(<<0>>, <<<<1>>>>)}
    [] OTHER                     -> {Bool(TRUE), Arr(<<Arr(<<>>)>>)}

MCAnswers(t) == Good(t)

SomeTypes == {Scalar(n) : n \in ScalarNames} \cup {Pointer(n) : n \in NodeNames}
             \cup {Vector(Scalar("int")), Vector(Pointer("ListNode")), Optional(Scalar("int"))}

P(n, t)                       == [name |-> n, type |-> t]
Fn(ret, params, obs, posts, order) ==
  [name |-> "solve", ret |-> ret, params |-> params, obs |-> obs, posts |-> posts, order |-> order]
Case(id, args, expected)      == [id |-> id, args |-> args, expected |-> expected, ctorArgs |-> <<>>,
                                  calls |-> <<>>, size |-> 1]
Job(lang, mode, fn, cls, cases) ==
  [language |-> lang, mode |-> mode, function |-> fn, class |-> cls, cases |-> cases,
   source |-> 1, time |-> 1, memory |-> 1]
FnJob(lang, fn, cases)        == Job(lang, "", fn, NoSpec, cases)

(* A function of one parameter that returns its type. *)
EchoJobs ==
  UNION {{FnJob(l, Fn(t, <<P("x", t)>>, <<>>, <<>>, ""), <<Case(1, <<a>>, e)>>) :
            l \in Languages, a \in Good(t) \cup Bad(t), e \in Good(t) \cup Bad(t)} :
         t \in SomeTypes}

----------------------------------------------------------------------------
(* Observations: void sort(v), and a length and what is left of v.         *)
Vec == Vector(Scalar("int"))
ObsReturn      == [kind |-> "return", parameter |-> 1, view |-> "", lengthFromReturn |-> FALSE]
ObsParam(k)    == [ObsReturn EXCEPT !.kind = "parameter", !.parameter = k]
ObsPrefix(k)   == [ObsParam(k) EXCEPT !.view = "prefix", !.lengthFromReturn = TRUE]

Observations ==
  {<<>>, <<ObsReturn>>, <<ObsParam(1)>>, <<ObsPrefix(1)>>, <<ObsParam(1), ObsReturn>>, <<ObsReturn, ObsPrefix(1)>>,
   <<ObsParam(2), ObsPrefix(1)>>, <<ObsParam(1), ObsParam(1)>>, <<ObsReturn, ObsReturn>>, <<ObsParam(3)>>,
   <<ObsPrefix(2)>>, <<[ObsParam(1) EXCEPT !.lengthFromReturn = TRUE]>>,
   <<[ObsPrefix(1) EXCEPT !.lengthFromReturn = FALSE]>>, <<[ObsParam(1) EXCEPT !.view = "tail"]>>,
   <<[ObsReturn EXCEPT !.kind = "stdout"]>>}

ObservedExpectations ==
  {Num(0), Null, Obj([return |-> Num(0)]),
   Obj([parameter |-> Obj(<<Ints(<<0, 0, 1>>)>>)]), Obj([parameter |-> Obj(<<Ints(<<0>>)>>)]),
   Obj([parameter |-> Null]), Obj([parameter |-> Obj(<<Null>>)]),
   Obj([return |-> Num(1), parameter |-> Obj(<<Ints(<<0>>)>>)]),
   Obj([return |-> Num(0), parameter |-> Obj(<<Ints(<<>>)>>)]),
   Obj([return |-> Num(0), parameter |-> Obj(<<Ints(<<0, 0, 1>>)>>)]),
   Obj([parameter |-> Obj(<<Ints(<<0>>), Num(0)>>)]),
   Obj([parameter |-> Obj(<<Ints(<<0>>)>>), extra |-> Null])}

ObservationJobs ==
  {FnJob(l, Fn(ret, <<P("v", Vec), P("n", Scalar("int"))>>, obs, <<>>, ""), <<Case(1, <<a, Num(0)>>, e)>>) :
     l \in Languages, ret \in {Scalar("int"), Scalar("void"), Scalar("bool")}, obs \in Observations,
     a \in {Null, Ints(<<0, 0, 1>>)}, e \in ObservedExpectations}

----------------------------------------------------------------------------
(* Identities: the result is, or shares nothing with, an argument.         *)
Post(kind, k) == [kind |-> kind, subject |-> "return", from |-> k]

Postconditions ==
  {<<Post("disjoint", 1)>>, <<Post("same_as", 1)>>, <<Post("same_as", 1), Post("disjoint", 2)>>,
   <<Post("disjoint", 1), Post("disjoint", 2)>>, <<Post("same_as", 1), Post("same_as", 1)>>,
   <<Post("same_as", 3)>>, <<Post("equal", 1)>>, <<[Post("same_as", 1) EXCEPT !.subject = "parameter"]>>}

PostconditionJobs ==
  UNION {{FnJob(l, Fn(t, <<P("a", t), P("b", u)>>, obs, posts, ""), <<Case(1, <<a, Null>>, e)>>) :
            l \in Languages, u \in {t, Scalar("bool")},
            posts \in Postconditions, a \in Good(t),
            obs \in {<<>>, <<ObsParam(1)>>},
            e \in {v : v \in Good(t)} \cup {Obj([return |-> v, postconditions |-> Obj(<<Bool(b)>>)]) : v \in Good(t), b \in BOOLEAN}
                  \cup {Obj([parameter |-> Obj(<<v>>)]) : v \in Good(t)}} :
         t \in {Pointer("ListNode"), Pointer("RandomListNode")}}
  \cup {FnJob(l, Fn(Scalar("int"), <<P("a", Scalar("int"))>>, <<>>, <<Post("same_as", 1)>>, ""),
              <<Case(1, <<Num(0)>>, Num(0))>>) : l \in Languages}

----------------------------------------------------------------------------
(* Results whose order does not count.                                     *)
OrderJobs ==
  UNION {{FnJob(l, Fn(t, <<>>, obs, <<>>, order), <<Case(1, <<>>, IF obs = <<>> THEN e ELSE Obj([return |-> e]))>>) :
            l \in Languages, order \in {"unordered", "sorted"}, e \in Good(t), obs \in {<<>>, <<ObsReturn>>}} :
         t \in {Vec, Vector(Pointer("ListNode")), Scalar("int"), [Vec EXCEPT !.ptr = TRUE]}}
  \cup {FnJob(l, Fn(Vec, <<P("v", Vec)>>, <<ObsParam(1)>>, <<>>, "unordered"),
              <<Case(1, <<Ints(<<0>>)>>, Obj([parameter |-> Obj(<<Ints(<<0>>)>>)]))>>) : l \in Languages}
  \cup {FnJob(l, Fn(Vec, <<P("v", Vec)>>, obs, <<>>, "unordered"),
              <<Case(1, <<Null>>, IF obs = <<>> THEN e ELSE Obj([return |-> e, parameter |-> Obj(<<e>>)]))>>) :
          l \in Languages, e \in Good(Vec), obs \in {<<>>, <<ObsParam(1), ObsReturn>>}}

----------------------------------------------------------------------------
(* Types that hold an optional vector, which a C++ driver cannot print: as *)
(* the result, as a parameter that is observed or is not, as its elements, *)
(* and as the result of an operation.                                      *)
OptionalVec == Optional(Vec)

OptionalJobs ==
  UNION {LET e(v) == IF u.name = "vector" THEN Arr(<<v>>) ELSE v
         IN  {FnJob(l, Fn(u, <<P("v", u)>>, <<>>, <<>>, ""), <<Case(1, <<e(a)>>, e(v))>>) :
                l \in Languages, a \in {Null, Ints(<<0, 1>>)}, v \in {Null, Ints(<<0, 1>>)}}
             \cup {FnJob(l, Fn(Scalar("int"), <<P("v", u)>>, obs, <<>>, ""), <<Case(1, <<e(Null)>>, x)>>) :
                     l \in Languages, obs \in {<<>>, <<ObsParam(1)>>, <<ObsPrefix(1)>>},
                     x \in {Num(0), Obj([parameter |-> Obj(<<e(Null)>>)])}} :
         u \in {OptionalVec, Vector(OptionalVec), Optional(Vector(Pointer("ListNode"))), Optional(OptionalVec)}}

----------------------------------------------------------------------------
(* Two test cases, types and names that are not supported.                 *)
TwoCaseJobs ==
  {FnJob(l, Fn(Scalar("int"), <<P("x", Scalar("int"))>>, <<>>, <<>>, ""),
         <<Case(1, <<Num(0)>>, Num(0)), Case(id, <<Num(1)>>, Num(1))>>) : l \in Languages, id \in {1, 2}}

OddTypes == {Scalar("void"), Vector(Scalar("void")), Pointer("int"), Scalar("ListNode"), Scalar("map"),
             [Vec EXCEPT !.ptr = TRUE], [name |-> "vector", args |-> <<Vec, Vec>>, ptr |-> FALSE], Scalar("vector")}

MetadataJobs ==
  LET plain == Fn(Scalar("int"), <<P("x", Scalar("int"))>>, <<>>, <<>>, "")
      one   == <<Case(1, <<Num(0)>>, Num(0))>>
      base(l) == FnJob(l, plain, one)
  IN  UNION {{[base(l) EXCEPT !.function.name = n] : n \in {"", "bad", "kw"}}
             \cup {[base(l) EXCEPT !.function.params[1].name = n] : n \in {"", "bad", "kw"}}
             \cup {[base(l) EXCEPT !.function.params[1].type = t] : t \in OddTypes}
             \cup {[base(l) EXCEPT !.function.ret = t] : t \in OddTypes}
             \cup {[base(l) EXCEPT !.mode = m] : m \in {"stdin", "function", "class", "program", "server"}}
             \cup {[base(l) EXCEPT !.source = n] : n \in {0, MaxSource, MaxSource + 1}}
             \cup {[base(l) EXCEPT !.time = n] : n \in {0, MaxTimeLimit, MaxTimeLimit + 1}}
             \cup {[base(l) EXCEPT !.memory = n] : n \in {0, MaxMemoryLimit, MaxMemoryLimit + 1}}
             \cup {[base(l) EXCEPT !.cases[1].size = n] : n \in {MaxCaseSize, MaxCaseSize + 1}}
             \cup {[base(l) EXCEPT !.cases = cs] : cs \in {<<>>, [i \in 1 .. MaxTestCases + 1 |-> one[1]],
                                                            <<Case(1, <<>>, Num(0))>>}}
             \cup {[base(l) EXCEPT !.function.params = [i \in 1 .. MaxParams + 1 |-> P("x", Scalar("int"))],
                                   !.cases[1].args = [i \in 1 .. MaxParams + 1 |-> Num(0)]]}
             \cup {[base(l) EXCEPT !.language = m] : m \in {"c", "java", ""}}
             \cup {[base(l) EXCEPT !.function = NoSpec, !.cases[1].expected = Str("ascii"), !.cases[1].size = n] :
                     n \in {MaxCaseSize, MaxCaseSize + 1}} :
            l \in Languages}

----------------------------------------------------------------------------
(* A counter class: Counter(start), get() -> int, add(n) -> void.          *)
Op(n, ret, params) == [name |-> n, ret |-> ret, params |-> params]
CounterOps == <<Op("get", Scalar("int"), <<>>), Op("add", Scalar("void"), <<P("n", Scalar("int"))>>)>>
Counter    == [name |-> "Counter", ctor |-> <<P("start", Scalar("int"))>>, ops |-> CounterOps]
Call(n, args) == [name |-> n, args |-> args]

ClassCase(calls, expected) ==
  [id |-> 1, args |-> <<>>, expected |-> expected, ctorArgs |-> <<Num(0)>>, calls |-> calls, size |-> 1]

CallLists == {<<>>, <<Call("get", <<>>)>>, <<Call("add", <<Num(1)>>), Call("get", <<>>)>>,
              <<Call("get", <<Num(1)>>)>>, <<Call("set", <<>>)>>}

ClassJobs ==
  LET base(l, c) == Job(l, "", NoSpec, Counter, <<c>>)
      good(l)    == base(l, ClassCase(<<Call("add", <<Num(1)>>), Call("get", <<>>)>>, Arr(<<Null, Num(0)>>)))
  IN  {base(l, ClassCase(calls, e)) :
         l \in Languages, calls \in CallLists,
         e \in {Null, Arr(<<>>), Arr(<<Num(0)>>), Arr(<<Null, Num(0)>>), Arr(<<Num(0), Num(0)>>)}}
      \cup UNION {{good(l), [good(l) EXCEPT !.class.name = "kw"], [good(l) EXCEPT !.class.ops = <<>>],
                   [good(l) EXCEPT !.class.ops[2].name = "get"], [good(l) EXCEPT !.class.ctor[1].name = ""],
                   [good(l) EXCEPT !.class.ops[2].params[1].name = ""], [good(l) EXCEPT !.class.ops[2].ret = Vector(Scalar("void"))],
                   [good(l) EXCEPT !.class.ctor[1].type = Scalar("void")],
                   [good(l) EXCEPT !.class.ops[1].ret = Optional(Vector(Scalar("int"))),
                                   !.cases[1].expected = Arr(<<Null, Ints(<<0>>)>>)],
                   [good(l) EXCEPT !.class.ctor[1].type = Pointer("TreeNode"),
                                   !.cases[1].ctorArgs = <<Tree(<<0, -1, -1, 1>>)>>],
                   [good(l) EXCEPT !.cases = <<good(l).cases[1], good(l).cases[1]>>],
                   [good(l) EXCEPT !.cases = <<good(l).cases[1], [good(l).cases[1] EXCEPT !.id = 2, !.ctorArgs = <<Num(1)>>]>>],
                   [good(l) EXCEPT !.cases[1].ctorArgs = <<>>], [good(l) EXCEPT !.mode = "function"],
                   [good(l) EXCEPT !.language = "c"]} : l \in Languages}

MCJobs == EchoJobs \cup ObservationJobs \cup PostconditionJobs \cup OrderJobs \cup OptionalJobs
          \cup TwoCaseJobs \cup MetadataJobs \cup ClassJobs

(* Numbers and strings all three encoders read, echoed by the program. *)
DoubleJobs ==
  {FnJob(l, Fn(t, <<P("x", t)>>, <<>>, <<>>, ""), <<Case(1, <<a>>, a)>>) :
     l \in Languages, t \in {Scalar("double")}, a \in {Num(1), Num(100000), Num(1234567), Dec(5, -1), Dec(1, -4)}}

=============================================================================
