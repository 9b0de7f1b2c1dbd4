--------------------------- MODULE FunctionMode ---------------------------
(* A job with function or class metadata from the API to its verdict: the  *)
(* validation of the metadata and of every test case, the generation of    *)
(* the driver, the run of one process per test case with the case's id as  *)
(* its input, and the comparison of what it prints with the canonical text *)
(* of the expected value.  What the user's function returns and does to    *)
(* its arguments is chosen freely.                                         *)
EXTENDS JsonValues, SequencesExt

(* The operators on values are parameters: what is proved about jobs holds *)
(* for any such operators.  HarnessTypes defines the ones of the code, and *)
(* the names there are those of the code.                                  *)
CONSTANTS
  Resolves(_),            \* a type the C++ backend has an adapter for (Resolve)
  PythonElement(_),       \* a type of elements the Python backend accepts (validateType)
  Canonical(_, _),        \* the text the judge expects, or Err (CanonicalJSON)
  CanonicalSorted(_, _),  \* the same where order does not count (CanonicalUnorderedJSON)
  Literal(_, _),          \* the value a C++ driver builds from JSON (GenerateLiteral)
  PythonLiteral(_, _),    \* the value a Python driver builds, or Err (__yexjudge_build_value)
  CppPrints(_),           \* a type the C++ driver can be compiled to print
  CppText(_, _),          \* what a C++ driver prints for a value (__serialize)
  PythonText(_, _),       \* the same in Python, or Err (__yexjudge_serialize_value)
  ObjectsOf(_),           \* the nodes a pointer reaches
  Spoiled(_, _),          \* a structure the user's function spoiled
  \* when two values, or two vectors up to order, are the same
  EqualValues(_, _, _), EqualBags(_, _, _),
  \* the values on which the encoders are meant to agree
  TextIsAgreed(_, _, _), LevelOrderIsOwn(_, _), IsNoStructure(_, _)

CONSTANTS
  Jobs,           \* the jobs clients send
  Answers(_),     \* JSON of values a program may come up with, by type
  MaxParams, MaxTestCases, MaxSource, MaxCaseSize, MaxTimeLimit, MaxMemoryLimit

VARIABLES
  job,      \* the job in hand
  pc,       \* where it is; a final value is the verdict
  case,     \* index of the test case to run
  ran       \* the last run: the case run, the arguments, the result, the text

vars == <<job, pc, case, ran>>

NoSpec == [none |-> TRUE]
NoRun  == [none |-> TRUE]

(* A job as json.Unmarshal fills it: all fields are there, its cases and   *)
(* calls are slices, an object has finitely many keys, no value is an      *)
(* error.                                                                  *)
ASSUME JobsAssumption ==
  \A j \in Jobs :
    /\ j = [language |-> j.language, mode |-> j.mode, function |-> j.function, class |-> j.class,
            cases |-> j.cases, source |-> j.source, time |-> j.time, memory |-> j.memory]
    /\ j.cases \in Seq(ToSet(j.cases))
    /\ \A c \in ToSet(j.cases) :
         /\ c.expected # Err /\ c.calls \in Seq(ToSet(c.calls))
         /\ Is("obj", c.expected) /\ "parameter" \in DOMAIN c.expected.obj
              /\ Is("obj", c.expected.obj["parameter"])
              => IsFiniteSet(DOMAIN c.expected.obj["parameter"].obj)
ASSUME AnswersAssumption == \A text \in Answers(Scalar("string")) : text # Err

----------------------------------------------------------------------------
(* Names are abstract: "" and "bad" are no identifiers, "kw" is a keyword  *)
(* of Python.                                                              *)
isCppIdentifier(n)  == n \notin {"", "bad"}
pythonIdentifier(n) == n \notin {"", "bad", "kw"}

ExecutionMode(j) ==
  IF j.mode # "" THEN j.mode
  ELSE IF j.function # NoSpec THEN "function"
  ELSE IF j.class # NoSpec THEN "class" ELSE "stdin"

returnObserved(fn) == fn.obs = <<>> \/ \E i \in DOMAIN fn.obs : fn.obs[i].kind = "return"

(* The observations of parameters, by their place in the declaration. *)
ParameterObservations(fn) == {i \in DOMAIN fn.obs : fn.obs[i].kind = "parameter"}
ObservedParameters(fn)    == {fn.obs[i].parameter : i \in ParameterObservations(fn)}

(* Every adapter's ValidateJSON accepts what its Canonical can read. *)
ValidateJSON(t, j) == Canonical(t, j) # Err

(* What the Python backend accepts on top of Resolves. *)
pythonType(t, allowVoid) == validateType(t, allowVoid, PythonElement(t.args[1]))

Distinct(s) == \A i, k \in DOMAIN s : s[i] = s[k] => i = k

----------------------------------------------------------------------------
(* Validation of the metadata for C++, at the API and in the worker.       *)

validateFunctionObservations(fn) ==
  IF fn.obs = <<>> THEN ~IsVoid(fn.ret)
  ELSE /\ Distinct([i \in DOMAIN fn.obs |-> <<fn.obs[i].kind, IF fn.obs[i].kind = "return" THEN 0 ELSE fn.obs[i].parameter>>])
       /\ \A i \in DOMAIN fn.obs :
            LET o == fn.obs[i]
            IN  \/ o.kind = "return" /\ ~IsVoid(fn.ret)
                \/ /\ o.kind = "parameter"
                   /\ o.parameter \in DOMAIN fn.params
                   /\ \/ o.view \in {"", "full"} /\ ~o.lengthFromReturn
                      \/ /\ o.view = "prefix" /\ o.lengthFromReturn
                         /\ IsVector(fn.params[o.parameter].type)
                         /\ fn.ret \in {Scalar("int"), Scalar("long long")}

validateFunctionComparison(fn) ==
  fn.order # "" => fn.order = "unordered" /\ returnObserved(fn) /\ IsVector(fn.ret)

validateFunctionPostconditions(fn) ==
  fn.posts # <<>> =>
    /\ IsNode(fn.ret)
    /\ \A p \in ToSet(fn.posts) :
         /\ p.kind \in {"disjoint", "same_as"} /\ p.subject = "return"
         /\ p.from \in DOMAIN fn.params
         /\ fn.params[p.from].type = fn.ret
    /\ Distinct([i \in DOMAIN fn.posts |-> <<fn.posts[i].kind, fn.posts[i].from>>])

(* The keys of "parameter" are indices: strconv.Atoi reads each key, and a *)
(* second spelling of an index ("00") is accepted and not looked at again. *)
validateFunctionExpected(fn, e) ==
  IF fn.obs = <<>> THEN ValidateJSON(fn.ret, e)
  ELSE /\ Is("obj", e)
       /\ IF returnObserved(fn) THEN "return" \in DOMAIN e.obj /\ ValidateJSON(fn.ret, e.obj["return"])
          ELSE "return" \notin DOMAIN e.obj
       /\ IF ObservedParameters(fn) = {} THEN "parameter" \notin DOMAIN e.obj
          ELSE /\ "parameter" \in DOMAIN e.obj
               /\ Is("obj", e.obj["parameter"])
               /\ DOMAIN e.obj["parameter"].obj = ObservedParameters(fn)
               /\ \A k \in ObservedParameters(fn) :
                    ValidateJSON(fn.params[k].type, e.obj["parameter"].obj[k])
       /\ "postconditions" \in DOMAIN e.obj =>
            e.obj["postconditions"] = Obj([i \in DOMAIN fn.posts |-> Bool(TRUE)])
       /\ DOMAIN e.obj \subseteq {"return", "parameter", "postconditions"}

CaseIds(j) == [i \in DOMAIN j.cases |-> j.cases[i].id]

validateCppFunction(j) ==
  LET fn == j.function
  IN  /\ isCppIdentifier(fn.name) /\ Resolves(fn.ret)
      /\ Len(fn.params) <= MaxParams
      /\ \A k \in DOMAIN fn.params :
           /\ isCppIdentifier(fn.params[k].name)
           /\ Resolves(fn.params[k].type) /\ ~IsVoid(fn.params[k].type)
      /\ validateFunctionObservations(fn)
      /\ validateFunctionComparison(fn)
      /\ validateFunctionPostconditions(fn)
      /\ Distinct(CaseIds(j))
      /\ \A c \in ToSet(j.cases) :
           /\ DOMAIN c.args = DOMAIN fn.params
           /\ validateFunctionExpected(fn, c.expected)
           /\ \A k \in DOMAIN c.args : ValidateJSON(fn.params[k].type, c.args[k])
           /\ c.size <= MaxCaseSize

----------------------------------------------------------------------------
(* Validation by the Python generator, which is its only one.              *)

validatePythonObservations(fn) ==
  IF fn.obs = <<>> THEN ~IsVoid(fn.ret)
  ELSE /\ Distinct([i \in DOMAIN fn.obs |-> <<fn.obs[i].kind, IF fn.obs[i].kind = "return" THEN 0 ELSE fn.obs[i].parameter>>])
       /\ \A o \in ToSet(fn.obs) :
            \/ o.kind = "return" /\ ~IsVoid(fn.ret)
            \/ /\ o.kind = "parameter" /\ o.parameter \in DOMAIN fn.params
               /\ IF o.view = "prefix"
                  THEN /\ o.lengthFromReturn
                       /\ IsVector(fn.params[o.parameter].type) /\ ~fn.params[o.parameter].type.ptr
                       /\ fn.ret \in {Scalar("int"), Scalar("long long")}
                  ELSE o.view \in {"", "full"} /\ ~o.lengthFromReturn

validatePythonPostconditions(fn) ==
  fn.posts # <<>> =>
    /\ fn.ret.ptr
    /\ \A p \in ToSet(fn.posts) :
         /\ p.kind \in {"disjoint", "same_as"} /\ p.subject = "return"
         /\ p.from \in DOMAIN fn.params /\ fn.params[p.from].type = fn.ret
    /\ Distinct([i \in DOMAIN fn.posts |-> <<fn.posts[i].kind, fn.posts[i].from>>])

(* Mutant: a return value nobody observes may be expected. *)
validatePythonExpectedExtra(fn, e) ==
  IF fn.obs = <<>> THEN ValidateJSON(fn.ret, e)
  ELSE /\ Is("obj", e)
       /\ returnObserved(fn) => "return" \in DOMAIN e.obj /\ ValidateJSON(fn.ret, e.obj["return"])
       /\ ObservedParameters(fn) # {} =>
            /\ "parameter" \in DOMAIN e.obj /\ Is("obj", e.obj["parameter"])
            /\ ObservedParameters(fn) \subseteq DOMAIN e.obj["parameter"].obj

validatePythonFunctionExpected(fn, e) ==
  IF fn.obs = <<>> THEN ValidateJSON(fn.ret, e)
  ELSE /\ Is("obj", e)
       /\ returnObserved(fn) => "return" \in DOMAIN e.obj /\ ValidateJSON(fn.ret, e.obj["return"])
       /\ ~returnObserved(fn) => "return" \notin DOMAIN e.obj
       /\ ObservedParameters(fn) = {} => "parameter" \notin DOMAIN e.obj
       /\ ObservedParameters(fn) # {} =>
            /\ "parameter" \in DOMAIN e.obj /\ Is("obj", e.obj["parameter"])
            /\ ObservedParameters(fn) \subseteq DOMAIN e.obj["parameter"].obj
            /\ \A k \in ObservedParameters(fn) :
                 ValidateJSON(fn.params[k].type, e.obj["parameter"].obj[k])
            /\ Cardinality(DOMAIN e.obj["parameter"].obj) = Cardinality(ObservedParameters(fn))
       /\ "postconditions" \in DOMAIN e.obj =>
            e.obj["postconditions"] = Obj([i \in DOMAIN fn.posts |-> Bool(TRUE)])
       /\ DOMAIN e.obj \subseteq {"return", "parameter", "postconditions"}

validatePythonFunction(j) ==
  LET fn == j.function
  IN  /\ j.source > 0 /\ j.cases # <<>>
      /\ pythonIdentifier(fn.name) /\ Resolves(fn.ret) /\ pythonType(fn.ret, TRUE)
      /\ Len(fn.params) <= MaxParams
      /\ \A k \in DOMAIN fn.params :
           /\ pythonIdentifier(fn.params[k].name)
           /\ Resolves(fn.params[k].type) /\ pythonType(fn.params[k].type, TRUE)
           /\ ~IsVoid(fn.params[k].type)
      /\ validatePythonObservations(fn)
      /\ fn.order # "" => /\ fn.order = "unordered" /\ returnObserved(fn)
                          /\ IsVector(fn.ret) /\ ~fn.ret.ptr
      /\ validatePythonPostconditions(fn)
      /\ Distinct(CaseIds(j))
      /\ \A c \in ToSet(j.cases) :
           /\ DOMAIN c.args = DOMAIN fn.params
           /\ \A k \in DOMAIN c.args : ValidateJSON(fn.params[k].type, c.args[k])
           /\ validatePythonFunctionExpected(fn, c.expected)

----------------------------------------------------------------------------
(* Class mode: one constructor call, then a sequence of operations.        *)

Operation(cls, name) == cls.ops[CHOOSE i \in DOMAIN cls.ops : cls.ops[i].name = name]

(* The checks of a class test case, the same in both generators. *)
validClassCase(cls, c) ==
  /\ DOMAIN c.ctorArgs = DOMAIN cls.ctor
  /\ \A k \in DOMAIN c.ctorArgs : ValidateJSON(cls.ctor[k].type, c.ctorArgs[k])
  /\ c.calls # <<>>
  /\ isArray(c.expected) /\ Len(arrayValues(c.expected)) = Len(c.calls)
  /\ \A i \in DOMAIN c.calls :
       /\ \E op \in ToSet(cls.ops) : op.name = c.calls[i].name
       /\ LET op == Operation(cls, c.calls[i].name)
          IN  /\ DOMAIN c.calls[i].args = DOMAIN op.params
              /\ \A k \in DOMAIN op.params : ValidateJSON(op.params[k].type, c.calls[i].args[k])
              /\ IF IsVoid(op.ret) THEN arrayValues(c.expected)[i] = Null
                 ELSE ValidateJSON(op.ret, arrayValues(c.expected)[i])

validateCppClass(j) ==
  LET cls == j.class
      params(ps) == \A p \in ToSet(ps) : /\ p.name = "" \/ isCppIdentifier(p.name)
                                         /\ Resolves(p.type) /\ ~IsVoid(p.type)
  IN  /\ j.source > 0 /\ isCppIdentifier(cls.name) /\ cls.ops # <<>>
      /\ Distinct([i \in DOMAIN cls.ops |-> cls.ops[i].name])
      /\ \A op \in ToSet(cls.ops) : isCppIdentifier(op.name) /\ Resolves(op.ret) /\ params(op.params)
      /\ params(cls.ctor)
      /\ Distinct(CaseIds(j))
      /\ \A c \in ToSet(j.cases) : validClassCase(cls, c)

validatePythonClass(j) ==
  LET cls == j.class
      params(ps, emptyName) ==
        \A p \in ToSet(ps) : /\ (p.name = "" /\ emptyName) \/ pythonIdentifier(p.name)
                             /\ Resolves(p.type) /\ pythonType(p.type, TRUE) /\ ~IsVoid(p.type)
  IN  /\ j.source > 0 /\ j.cases # <<>> /\ pythonIdentifier(cls.name) /\ cls.ops # <<>>
      /\ params(cls.ctor, TRUE)
      /\ Distinct([i \in DOMAIN cls.ops |-> cls.ops[i].name])
      /\ \A op \in ToSet(cls.ops) :
           /\ pythonIdentifier(op.name)
           /\ Resolves(op.ret) /\ pythonType(op.ret, TRUE) /\ params(op.params, FALSE)
      /\ Distinct(CaseIds(j))
      /\ \A c \in ToSet(j.cases) : validClassCase(cls, c)

----------------------------------------------------------------------------
(* The job as a whole, and the generated program.                          *)

(* The C++ function generator's own check of what it is given. *)
validateRequest(j) ==
  LET fn == j.function
  IN  /\ j.source > 0 /\ fn.name # "" /\ Resolves(fn.ret)
      /\ validateFunctionObservations(fn)
      /\ \A k \in DOMAIN fn.params : /\ fn.params[k].name # ""
                                     /\ Resolves(fn.params[k].type) /\ ~IsVoid(fn.params[k].type)
      /\ validateFunctionPostconditions(fn)
      /\ \A c \in ToSet(j.cases) : DOMAIN c.args = DOMAIN fn.params

(* ValidateContract, the generator registered for language and mode, its   *)
(* checks, and for C++ function mode a literal for every argument.         *)
generateModeProgram(j) ==
  /\ ExecutionMode(j) = "function" <=> j.function # NoSpec
  /\ ExecutionMode(j) = "class" <=> j.class # NoSpec
  /\ CASE j.language = "cpp" /\ ExecutionMode(j) = "function" ->
            /\ validateRequest(j)
            /\ \A c \in ToSet(j.cases) : \A k \in DOMAIN c.args :
                 ValidateJSON(j.function.params[k].type, c.args[k])
       [] j.language = "cpp" /\ ExecutionMode(j) = "class"       -> validateCppClass(j)
       [] j.language = "python" /\ ExecutionMode(j) = "function" -> validatePythonFunction(j)
       [] j.language = "python" /\ ExecutionMode(j) = "class"    -> validatePythonClass(j)
       [] OTHER                                                  -> FALSE

(* Mutant: function mode is let through for every language. *)
ValidateJobAnyLanguage(j) ==
  /\ j.language \in {"c", "cpp", "python"}
  /\ ExecutionMode(j) \in {"stdin", "function", "class"}
  /\ ExecutionMode(j) = "function" <=> j.function # NoSpec
  /\ ExecutionMode(j) = "class" <=> j.class # NoSpec
  /\ j.source \in 1 .. MaxSource /\ Len(j.cases) \in 1 .. MaxTestCases
  /\ j.time \in 1 .. MaxTimeLimit /\ j.memory \in 1 .. MaxMemoryLimit
  /\ j.function # NoSpec => validateCppFunction(j)
  /\ j.class # NoSpec => j.language \in {"cpp", "python"} /\ generateModeProgram(j)

ValidateJob(j) ==
  /\ j.language \in {"c", "cpp", "python"}
  /\ ExecutionMode(j) \in {"stdin", "function", "class"}
  /\ ExecutionMode(j) = "function" <=> j.function # NoSpec
  /\ ExecutionMode(j) = "class" <=> j.class # NoSpec
  /\ j.source \in 1 .. MaxSource
  /\ Len(j.cases) \in 1 .. MaxTestCases
  /\ j.time \in 1 .. MaxTimeLimit /\ j.memory \in 1 .. MaxMemoryLimit
  /\ IF j.function # NoSpec
     THEN \/ j.language = "python" /\ generateModeProgram(j)
          \/ j.language = "cpp" /\ validateCppFunction(j)
     ELSE IF j.class # NoSpec
     THEN j.language \in {"cpp", "python"} /\ generateModeProgram(j)
     ELSE \A c \in ToSet(j.cases) : c.size <= MaxCaseSize

----------------------------------------------------------------------------
(* The compilation of the driver.  The user's own part compiles.           *)

(* What the driver calls __serialize for: the observed values, of a prefix *)
(* the elements, and in class mode the result of every call.               *)
printedTypes(j) ==
  LET fn      == j.function
      view(o) == LET t == fn.params[o.parameter].type
                 IN  IF o.view = "prefix" THEN t.args[1] ELSE t
      calls   == UNION {ToSet(c.calls) : c \in ToSet(j.cases)}
  IN  IF fn # NoSpec
      THEN (IF returnObserved(fn) THEN {fn.ret} ELSE {})
           \cup {view(fn.obs[i]) : i \in ParameterObservations(fn)}
      ELSE {t \in {Operation(j.class, call.name).ret : call \in calls} : ~IsVoid(t)}

(* In C++ the case ids are the labels of a switch. *)
driverCompiles(j) ==
  j.language = "cpp" /\ ExecutionMode(j) # "stdin" =>
    Distinct(CaseIds(j)) /\ \A t \in printedTypes(j) : CppPrints(t)

----------------------------------------------------------------------------
(* The driver's run of one case.                                           *)

Build(lang, t, v)     == IF lang = "python" THEN PythonLiteral(t, v) ELSE Literal(t, v)
Serialize(lang, t, v) == IF lang = "python" THEN PythonText(t, v) ELSE CppText(t, v)

(* Nodes made at different times are different objects: argument k has the *)
(* identities above 10 * k.                                                *)
Fresh(t, v, by) == IF IsNode(t) /\ v # Null /\ v # Err THEN Shift(v, by) ELSE v

(* Mutant: the driver's branches are labelled by position from 0. *)
chosenCaseByPosition(j, id) ==
  j.cases[IF id + 1 \in DOMAIN j.cases THEN id + 1 ELSE Len(j.cases)]

(* main: the case whose id is on stdin.  In Python, if/elif take the first *)
(* one that has it; in C++ there is only one.                              *)
chosenCase(j, id) == j.cases[CHOOSE i \in DOMAIN j.cases :
                        j.cases[i].id = id /\ \A k \in 1 .. i - 1 : j.cases[k].id # id]

driverArgs(j, c) ==
  [k \in DOMAIN c.args |->
     Fresh(j.function.params[k].type, Build(j.language, j.function.params[k].type, c.args[k]), 10 * k)]

(* What the user's function may return: an argument itself, a copy of it,  *)
(* it tied up, or any other value of the type.                             *)
Returns(fn, args) ==
  LET same == {args[k] : k \in {i \in DOMAIN args : fn.params[i].type = fn.ret}}
  IN  IF IsVoid(fn.ret) THEN {Null}
      ELSE same
           \cup {Fresh(fn.ret, v, 100) : v \in same}
           \cup {Spoiled(fn.ret, v) : v \in {w \in same : IsNode(fn.ret) /\ w # Null}}
           \cup {Fresh(fn.ret, Literal(fn.ret, a), 200) : a \in Answers(fn.ret)}

(* What it may leave in an observed argument. *)
Leaves(fn, args, k) ==
  {args[k]} \cup IF k \in ObservedParameters(fn)
                 THEN {Fresh(fn.params[k].type, Literal(fn.params[k].type, a), 300 + 10 * k)
                         : a \in Answers(fn.params[k].type)}
                 ELSE {}

Prefix(v, n) == Arr(SubSeq(v.arr, 1, IF n < 0 THEN 0 ELSE IF n > Len(v.arr) THEN Len(v.arr) ELSE n))

(* Mutant: the whole parameter is printed, past the returned length. *)
viewedTextWhole(lang, fn, o, post, ret) ==
  Serialize(lang, fn.params[o.parameter].type, post[o.parameter])

(* __serialize_prefix, and the slice of the Python driver. *)
viewedText(lang, fn, o, post, ret) ==
  LET t == fn.params[o.parameter].type
  IN  IF o.view # "prefix" THEN Serialize(lang, t, post[o.parameter])
      ELSE IF post[o.parameter] = Null THEN Err    \* None has no slice
      ELSE Serialize(lang, t, Prefix(post[o.parameter], ret.num))

(* __disjoint and the comparison of addresses; sets of id() in Python. *)
postconditionHolds(p, ret, arg) ==
  IF p.kind = "same_as" THEN IF ret = Null \/ arg = Null THEN ret = arg ELSE ret.root = arg.root
  ELSE ObjectsOf(ret) \cap ObjectsOf(arg) = {}

postconditionFields(fn, ret, post) ==
  [i \in DOMAIN fn.posts |-> <<i, Bool(postconditionHolds(fn.posts[i], ret, post[fn.posts[i].from]))>>]

Field(present, key, x) == IF present THEN <<<<key, x>>>> ELSE <<>>
AnyErr(params)         == \E i \in DOMAIN params : params[i][2] = Err

(* The fields a driver prints: the return value, the observed parameters   *)
(* in the order they were declared, the postconditions.  Python serializes *)
(* a result nobody observes too.                                           *)
generateObservations(lang, fn, ret, post) ==
  LET params == [i \in ParameterObservations(fn) |->
                   <<fn.obs[i].parameter, viewedText(lang, fn, fn.obs[i], post, ret)>>]
      r      == IF returnObserved(fn) \/ (lang = "python" /\ ~IsVoid(fn.ret))
                THEN Serialize(lang, fn.ret, ret) ELSE Null
  IN  IF fn.obs = <<>> /\ fn.posts = <<>> THEN r
      ELSE IF r = Err \/ AnyErr(params) THEN Err
      ELSE [fields |-> Field(returnObserved(fn), "return", r)
                       \o Field(ParameterObservations(fn) # {}, "parameter", [fields |-> params])
                       \o Field(fn.posts # <<>>, "postconditions",
                                [fields |-> postconditionFields(fn, ret, post)])]

(* Class mode: one result per call, null for a void one. *)
generateClassCase(lang, cls, c, results) ==
  LET items == [i \in DOMAIN c.calls |->
                  LET op == Operation(cls, c.calls[i].name)
                  IN  IF IsVoid(op.ret) THEN Null ELSE Serialize(lang, op.ret, results[i])]
  IN  IF Err \in ToSet(items) THEN Err ELSE Arr(items)

----------------------------------------------------------------------------
(* The expected text and the comparison.                                   *)

canonicalClassExpectedOutput(cls, c) ==
  LET values == arrayValues(c.expected)
      items  == [i \in DOMAIN c.calls |->
                   LET op == Operation(cls, c.calls[i].name)
                   IN  IF IsVoid(op.ret) THEN Null ELSE Canonical(op.ret, values[i])]
  IN  IF ~isArray(c.expected) \/ Len(values) # Len(c.calls) \/ Err \in ToSet(items) THEN Err
      ELSE Arr(items)

TruePostconditions(fn) == [fields |-> [i \in DOMAIN fn.posts |-> <<i, Bool(TRUE)>>]]

canonicalReturnWithPostconditions(fn, e) ==
  LET r == Canonical(fn.ret, e)
  IN  IF r = Err THEN Err
      ELSE [fields |-> <<<<"return", r>>, <<"postconditions", TruePostconditions(fn)>>>>]

testCaseExpectedOutput(j, c) ==
  LET fn     == j.function
      e      == c.expected
      params == [i \in ParameterObservations(fn) |->
                   LET k == fn.obs[i].parameter
                   IN  <<k, IF k \in DOMAIN e.obj["parameter"].obj
                            THEN Canonical(fn.params[k].type, e.obj["parameter"].obj[k]) ELSE Err>>]
  IN  IF j.class # NoSpec THEN canonicalClassExpectedOutput(j.class, c)
      ELSE IF fn.obs = <<>> /\ fn.posts = <<>> THEN Canonical(fn.ret, e)
      ELSE IF fn.obs = <<>> THEN canonicalReturnWithPostconditions(fn, e)
      ELSE IF ~Is("obj", e) THEN Err
      ELSE IF returnObserved(fn) /\ ("return" \notin DOMAIN e.obj \/ Canonical(fn.ret, e.obj["return"]) = Err)
      THEN Err
      ELSE IF ParameterObservations(fn) # {}
              /\ ("parameter" \notin DOMAIN e.obj \/ ~Is("obj", e.obj["parameter"]) \/ AnyErr(params))
      THEN Err
      ELSE [fields |-> Field(returnObserved(fn), "return", Canonical(fn.ret, e.obj["return"]))
                       \o Field(ParameterObservations(fn) # {}, "parameter", [fields |-> params])
                       \o Field(fn.posts # <<>>, "postconditions", TruePostconditions(fn))]

(* The return value is canonicalized, the object's keys are sorted. *)
canonicalizeUnorderedFunctionOutput(fn, x) ==
  IF fn.obs = <<>> /\ fn.posts = <<>> THEN CanonicalSorted(fn.ret, x)
  ELSE LET keys    == {x.fields[i][1] : i \in DOMAIN x.fields}
           text(k) == x.fields[CHOOSE i \in DOMAIN x.fields : x.fields[i][1] = k][2]
       IN  IF "return" \notin keys \/ CanonicalSorted(fn.ret, text("return")) = Err THEN Err
           ELSE [sorted |-> [k \in keys |-> IF k = "return" THEN CanonicalSorted(fn.ret, text(k)) ELSE text(k)]]

functionOutputsEqual(j, actual, expected) ==
  IF j.function = NoSpec \/ j.function.order # "unordered" THEN actual = expected
  ELSE LET a == canonicalizeUnorderedFunctionOutput(j.function, actual)
           e == canonicalizeUnorderedFunctionOutput(j.function, expected)
       IN  a # Err /\ e # Err /\ a = e

----------------------------------------------------------------------------
(* The job's way through the system.                                       *)

Init ==
  /\ job \in Jobs
  /\ pc = "request" /\ case = 1 /\ ran = NoRun

(* POST /submissions validates before it stores. *)
Submit ==
  /\ pc = "request"
  /\ pc' = IF ValidateJob(job) THEN "queued" ELSE "rejected"
  /\ UNCHANGED <<job, case, ran>>

(* A row an older server stored, or somebody inserted by hand. *)
StoredBefore ==
  /\ pc = "request"
  /\ pc' = "queued"
  /\ UNCHANGED <<job, case, ran>>

(* The worker validates again, generates the driver and compiles it. *)
ProcessSubmission ==
  /\ pc = "queued"
  /\ pc' = IF ~ValidateJob(job) THEN "validation_error"
           ELSE IF ExecutionMode(job) # "stdin" /\ ~generateModeProgram(job) THEN "infrastructure_error"
           ELSE IF ~driverCompiles(job) THEN "compilation_error"
           ELSE "running"
  /\ UNCHANGED <<job, case, ran>>

(* The verdict on what the process printed: exit code 1 when it raised. *)
Verdict(text, expected) ==
  IF text = Err THEN "runtime_error"
  ELSE IF expected = Err THEN "infrastructure_error"
  ELSE IF ~functionOutputsEqual(job, text, expected) THEN "wrong_answer"
  ELSE IF case = Len(job.cases) THEN "accepted" ELSE "running"

RunFunctionCase ==
  /\ pc = "running" /\ job.function # NoSpec
  /\ LET fn   == job.function
         c    == chosenCase(job, job.cases[case].id)
         args == driverArgs(job, c)
     IN  IF Err \in ToSet(args)
         THEN /\ pc' = "runtime_error"
              /\ ran' = NoRun
         ELSE \E ret \in Returns(fn, args) :
              \E post \in {p \in [DOMAIN args -> UNION {Leaves(fn, args, k) : k \in DOMAIN args}] :
                             \A k \in DOMAIN args : p[k] \in Leaves(fn, args, k)} :
                LET text == generateObservations(job.language, fn, ret, post)
                IN  /\ ran' = [of |-> case, args |-> c.args, ret |-> ret, post |-> post, text |-> text]
                    /\ pc' = Verdict(text, testCaseExpectedOutput(job, job.cases[case]))
  /\ case' = case + 1
  /\ UNCHANGED job

(* An argument of the constructor or of a call that cannot be built. *)
classArgumentRaises(lang, cls, c) ==
  \/ \E k \in DOMAIN c.ctorArgs : Build(lang, cls.ctor[k].type, c.ctorArgs[k]) = Err
  \/ \E i \in DOMAIN c.calls : \E k \in DOMAIN c.calls[i].args :
       Build(lang, Operation(cls, c.calls[i].name).params[k].type, c.calls[i].args[k]) = Err

RunClassCase ==
  /\ pc = "running" /\ job.class # NoSpec
  /\ LET c == chosenCase(job, job.cases[case].id)
         ops == [i \in DOMAIN c.calls |-> Operation(job.class, c.calls[i].name)]
         values(i) == IF IsVoid(ops[i].ret) THEN {Null}
                      ELSE {Literal(ops[i].ret, a) : a \in Answers(ops[i].ret)}
     IN  IF classArgumentRaises(job.language, job.class, c)
         THEN /\ pc' = "runtime_error"
              /\ ran' = NoRun
         ELSE \E results \in {r \in [DOMAIN ops -> UNION {values(i) : i \in DOMAIN ops}] :
                           \A i \in DOMAIN ops : r[i] \in values(i)} :
                LET text == generateClassCase(job.language, job.class, c, results)
                IN  /\ ran' = [of |-> case, args |-> c.ctorArgs, ret |-> Arr(results), post |-> <<>>, text |-> text]
                    /\ pc' = Verdict(text, testCaseExpectedOutput(job, job.cases[case]))
  /\ case' = case + 1
  /\ UNCHANGED job

(* stdin mode compares the trimmed output with the expected output. *)
RunStdinCase ==
  /\ pc = "running" /\ job.function = NoSpec /\ job.class = NoSpec
  /\ \E text \in Answers(Scalar("string")) :
       /\ ran' = [of |-> case, args |-> job.cases[case].args, ret |-> text, post |-> <<>>, text |-> text]
       /\ pc' = Verdict(text, job.cases[case].expected)
  /\ case' = case + 1
  /\ UNCHANGED job

Next == \/ Submit \/ StoredBefore \/ ProcessSubmission
        \/ RunFunctionCase \/ RunClassCase \/ RunStdinCase

Spec == Init /\ [][Next]_vars

----------------------------------------------------------------------------
(* What a run of the user's function deserves, said about values alone.    *)

ExpectedReturn(fn, e) == IF fn.obs = <<>> THEN e ELSE e.obj["return"]

View(o, v, ret) == IF o.view = "prefix" THEN Prefix(v, ret.num) ELSE v

(* Where the order does not count, None stands for the empty vector. *)
VectorOf(ret) == IF ret = Null THEN Arr(<<>>) ELSE ret

(* A result with the root of an argument is that argument. *)
SameObject(ret, other) ==
  /\ ret = Null <=> other = Null
  /\ ret # Null => ret.root = other.root /\ ObjectsOf(ret) = ObjectsOf(other)

CorrectReturn(fn, e, ret) ==
  returnObserved(fn) =>
    LET want == Literal(fn.ret, ExpectedReturn(fn, e))
    IN  IF fn.order = "unordered" THEN EqualBags(fn.ret, VectorOf(ret), want)
        ELSE EqualValues(fn.ret, ret, want)

CorrectParameter(fn, e, ret, post, o) ==
  LET t == fn.params[o.parameter].type
  IN  /\ o.view = "prefix" => post[o.parameter] # Null
      /\ EqualValues(t, View(o, post[o.parameter], ret), Literal(t, e.obj["parameter"].obj[o.parameter]))

CorrectIdentity(p, ret, other) ==
  IF p.kind = "same_as" THEN SameObject(ret, other)
  ELSE \A n \in ObjectsOf(ret) : n \notin ObjectsOf(other)

CorrectFunction(fn, e, ret, post) ==
  /\ CorrectReturn(fn, e, ret)
  /\ \A i \in ParameterObservations(fn) : CorrectParameter(fn, e, ret, post, fn.obs[i])
  /\ \A i \in DOMAIN fn.posts : CorrectIdentity(fn.posts[i], ret, post[fn.posts[i].from])

CorrectClass(cls, c, results) ==
  \A i \in DOMAIN c.calls :
    LET op == Operation(cls, c.calls[i].name)
    IN  ~IsVoid(op.ret) => EqualValues(op.ret, results.arr[i], Literal(op.ret, c.expected.arr[i]))

Correct ==
  LET c == job.cases[ran.of]
  IN  IF job.function # NoSpec THEN CorrectFunction(job.function, c.expected, ran.ret, ran.post)
      ELSE IF job.class # NoSpec THEN CorrectClass(job.class, c, ran.ret)
      ELSE ran.text = c.expected

(* The values for which the three encoders are meant to agree. *)
Structured(t, v) == IsNode(t) /\ v # Null => ~IsNoStructure(t, v)
Plain(lang, t, v, e) == TextIsAgreed(lang, t, v) /\ LevelOrderIsOwn(t, e) /\ Structured(t, v)

RepresentableFunction(j, c, ret, post) ==
  LET fn == j.function
  IN  /\ Structured(fn.ret, ret)
      /\ returnObserved(fn) => Plain(j.language, fn.ret, ret, ExpectedReturn(fn, c.expected))
      /\ \A k \in ObservedParameters(fn) :
           Plain(j.language, fn.params[k].type, post[k], c.expected.obj["parameter"].obj[k])

RepresentableClass(j, c, results) ==
  \A i \in DOMAIN c.calls :
    LET t == Operation(j.class, c.calls[i].name).ret
    IN  ~IsVoid(t) => Plain(j.language, t, results.arr[i], c.expected.arr[i])

Representable ==
  LET c == job.cases[ran.of]
  IN  /\ job.function # NoSpec => RepresentableFunction(job, c, ran.ret, ran.post)
      /\ job.class # NoSpec => RepresentableClass(job, c, ran.ret)

----------------------------------------------------------------------------
(* What the encoders promise of single values, which the verdicts rest on: *)
(* of a value a run can return or leave behind, the driver prints the      *)
(* judge's text of e exactly when it is the value e stands for.            *)

Encodes(lang, t, v, e) ==
  Serialize(lang, t, v) = Canonical(t, e) <=> EqualValues(t, v, Literal(t, e))

(* The same with both texts sorted. *)
EncodesUnordered(lang, t, v, e) ==
  LET text == Serialize(lang, t, v)
      a    == CanonicalSorted(t, text)
      x    == CanonicalSorted(t, Canonical(t, e))
  IN  text # Err /\ a # Err /\ x # Err /\ a = x <=> EqualBags(t, VectorOf(v), Literal(t, e))

(* The result, the observed parameters and the identity of the result. *)
FunctionEncoders(j, c) ==
  LET fn   == j.function
      e    == c.expected
      args == driverArgs(j, c)
  IN  \A ret \in Returns(fn, args) : Structured(fn.ret, ret) =>
        /\ ~IsVoid(fn.ret) => Serialize(j.language, fn.ret, ret) # Err
        /\ returnObserved(fn) /\ Plain(j.language, fn.ret, ret, ExpectedReturn(fn, e)) =>
             IF fn.order = "unordered" THEN EncodesUnordered(j.language, fn.ret, ret, ExpectedReturn(fn, e))
             ELSE Encodes(j.language, fn.ret, ret, ExpectedReturn(fn, e))
        /\ \A i \in ParameterObservations(fn) :
             LET o    == fn.obs[i]
                 t    == fn.params[o.parameter].type
                 want == e.obj["parameter"].obj[o.parameter]
             IN  \A v \in Leaves(fn, args, o.parameter) :
                   Plain(j.language, t, v, want) /\ (o.view = "prefix" => v # Null) =>
                     Encodes(j.language, t, View(o, v, ret), want)
        /\ \A p \in ToSet(fn.posts) : \A v \in Leaves(fn, args, p.from) :
             ret # Null /\ v # Null /\ ret.root = v.root => ObjectsOf(ret) = ObjectsOf(v)

ClassEncoders(j, c) ==
  \A i \in DOMAIN c.calls :
    LET t == Operation(j.class, c.calls[i].name).ret
    IN  ~IsVoid(t) => \A a \in Answers(t) :
          Plain(j.language, t, Literal(t, a), c.expected.arr[i]) =>
            Encodes(j.language, t, Literal(t, a), c.expected.arr[i])

ASSUME EncodersAssumption ==
  \A j \in Jobs : ValidateJob(j) =>
    \A c \in ToSet(j.cases) :
      /\ j.function # NoSpec /\ Err \notin ToSet(driverArgs(j, c)) => FunctionEncoders(j, c)
      /\ j.class # NoSpec => ClassEncoders(j, c)

----------------------------------------------------------------------------
(* Properties.                                                             *)

(* A job ValidateJob accepts can be judged: neither the generator nor the  *)
(* canonical form of an expected value fails on it later, which the user   *)
(* would see as an infrastructure error of the judge.                      *)
AcceptedIsJudged == pc # "infrastructure_error"

(* The verdict on a case is the one the values deserve: the text          *)
(* comparison of testcases.go accepts a run exactly when the returned      *)
(* value, the observed parameters and the identities are the expected      *)
(* ones, for all values the encoders agree on.                             *)
VerdictIsDeserved ==
  ran # NoRun /\ Representable => (pc \in {"running", "accepted"} <=> Correct)

(* The process started with a case's id runs with that case's arguments.   *)
CaseRunsItsOwnArguments ==
  ran # NoRun => ran.args = IF job.class # NoSpec THEN job.cases[ran.of].ctorArgs ELSE job.cases[ran.of].args

(* The two backends share their metadata: a job that is valid for Python   *)
(* (within the size of a test case, which only C++ limits) is valid for    *)
(* C++ as well.                                                            *)
ContractIsShared ==
  /\ job.language = "python" /\ ExecutionMode(job) # "stdin"
  /\ ValidateJob(job)
  /\ \A c \in ToSet(job.cases) : c.size <= MaxCaseSize
  => ValidateJob([job EXCEPT !.language = "cpp"])

(* A run that returns the expected value and leaves the expected           *)
(* parameters is never called a wrong answer.                              *)
CorrectIsAccepted ==
  pc = "wrong_answer" /\ ran # NoRun => ~Correct

----------------------------------------------------------------------------
(* The inductive invariant (FunctionModeProofs).                           *)

(* Only a valid job is run, one case after the other.                      *)
RunningInv ==
  /\ job \in Jobs
  /\ pc \in {"request", "queued"} => case = 1 /\ ran = NoRun
  /\ pc = "running" => ValidateJob(job) /\ case \in 1 .. Len(job.cases)

(* What is known of the last run.                                          *)
RanInv == ran # NoRun => ValidateJob(job) /\ ran.of \in 1 .. Len(job.cases)

IndInv == RunningInv /\ RanInv /\ AcceptedIsJudged /\ CaseRunsItsOwnArguments /\ VerdictIsDeserved

=============================================================================
