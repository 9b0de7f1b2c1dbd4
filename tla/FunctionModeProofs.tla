------------------------ MODULE FunctionModeProofs ------------------------
(* What holds of jobs in function and class mode for any set of jobs and   *)
(* any operators on values: the checks of the API, of the worker and of    *)
(* the generators agree, and each case runs with its own arguments.        *)
EXTENDS FunctionMode, FiniteSetTheorems, SequenceTheorems, TLAPS

(* ValidateJob lets a job be in one mode only.                             *)
LEMMA OneMode ==
  ASSUME NEW j, ValidateJob(j)
  PROVE  /\ ~(j.function # NoSpec /\ j.class # NoSpec)
         /\ ExecutionMode(j) # "stdin" => j.function # NoSpec \/ j.class # NoSpec
BY DEF ValidateJob

(* A valid function job passed the checks of its language.                 *)
LEMMA ValidFunction ==
  ASSUME NEW j, ValidateJob(j), j.function # NoSpec
  PROVE  \/ j.language = "cpp" /\ validateCppFunction(j)
         \/ j.language = "python" /\ validatePythonFunction(j)
<1>1. ExecutionMode(j) = "function"
  BY DEF ValidateJob
<1>2. CASE j.language = "python" /\ generateModeProgram(j)
  BY <1>1, <1>2 DEF generateModeProgram
<1> QED
  BY <1>2 DEF ValidateJob

(* So did a valid class job.                                               *)
LEMMA ValidClass ==
  ASSUME NEW j, ValidateJob(j), j.class # NoSpec
  PROVE  \/ j.language = "cpp" /\ validateCppClass(j)
         \/ j.language = "python" /\ validatePythonClass(j)
<1>1. ExecutionMode(j) = "class" /\ j.function = NoSpec
  BY OneMode DEF ValidateJob
<1>2. j.language \in {"cpp", "python"} /\ generateModeProgram(j)
  BY <1>1 DEF ValidateJob
<1>3. CASE j.language = "cpp"
  BY <1>1, <1>2, <1>3 DEF generateModeProgram
<1>4. CASE j.language = "python"
  BY <1>1, <1>2, <1>4 DEF generateModeProgram
<1> QED
  BY <1>2, <1>3, <1>4

(* The generator accepts what ValidateJob accepts.                         *)
LEMMA GeneratorAccepts ==
  ASSUME NEW j, ValidateJob(j), ExecutionMode(j) # "stdin"
  PROVE  generateModeProgram(j)
<1>1. CASE j.function # NoSpec /\ j.language = "cpp"
  <2>1. ExecutionMode(j) = "function" /\ j.class = NoSpec /\ ExecutionMode(j) # "class"
    BY <1>1, OneMode DEF ValidateJob
  <2>2. validateCppFunction(j) /\ j.source > 0
    BY <1>1, ValidFunction DEF ValidateJob
  <2>3. validateRequest(j)
    BY <2>2 DEF validateRequest, validateCppFunction, isCppIdentifier
  <2>4. \A c \in ToSet(j.cases) : \A k \in DOMAIN c.args : ValidateJSON(j.function.params[k].type, c.args[k])
    BY <2>2 DEF validateCppFunction
  <2> QED
    BY <1>1, <2>1, <2>3, <2>4 DEF generateModeProgram
<1> QED
  BY <1>1, OneMode DEF ValidateJob

(* Two cases of a valid job never have one id.                             *)
LEMMA IdsAreDistinct ==
  ASSUME NEW j, ValidateJob(j), j.function # NoSpec \/ j.class # NoSpec
  PROVE  Distinct(CaseIds(j))
BY ValidFunction, ValidClass DEF validateCppFunction, validatePythonFunction, validateCppClass, validatePythonClass

(* The driver finds the case whose id it was given.                        *)
LEMMA OwnCase ==
  ASSUME NEW j \in Jobs, ValidateJob(j), j.function # NoSpec \/ j.class # NoSpec,
         NEW i \in 1 .. Len(j.cases)
  PROVE  chosenCase(j, j.cases[i].id) = j.cases[i]
<1>1. DOMAIN j.cases = 1 .. Len(j.cases) /\ Len(j.cases) \in Nat
  BY JobsAssumption
<1>2. \A k \in 1 .. Len(j.cases) : j.cases[k].id = j.cases[i].id => k = i
  BY <1>1, IdsAreDistinct DEF Distinct, CaseIds
<1>3. i = CHOOSE k \in DOMAIN j.cases :
            j.cases[k].id = j.cases[i].id /\ \A n \in 1 .. k - 1 : j.cases[n].id # j.cases[i].id
  <2>1. \A n \in 1 .. i - 1 : j.cases[n].id # j.cases[i].id
    BY <1>1, <1>2
  <2> QED
    BY <1>1, <1>2, <2>1
<1> QED
  BY <1>3 DEF chosenCase

----------------------------------------------------------------------------
(* The expected value of a case passed validateFunctionExpected, or its    *)
(* Python copy; both say the same (the keys of an object are finite).      *)
LEMMA SameExpectations ==
  ASSUME NEW j \in Jobs, NEW c \in ToSet(j.cases), NEW fn,
         validatePythonFunctionExpected(fn, c.expected)
  PROVE  validateFunctionExpected(fn, c.expected)
<1> DEFINE e == c.expected
           p == e.obj["parameter"].obj
<1>1. CASE fn.obs = <<>>
  BY <1>1 DEF validatePythonFunctionExpected, validateFunctionExpected
<1>2. CASE fn.obs # <<>> /\ ObservedParameters(fn) # {}
  <2>1. /\ Is("obj", e) /\ "parameter" \in DOMAIN e.obj /\ Is("obj", e.obj["parameter"])
        /\ ObservedParameters(fn) \subseteq DOMAIN p
        /\ Cardinality(DOMAIN p) = Cardinality(ObservedParameters(fn))
    BY <1>2 DEF validatePythonFunctionExpected
  <2>2. IsFiniteSet(DOMAIN p)
    BY <2>1, JobsAssumption
  <2>3. DOMAIN p = ObservedParameters(fn)
    BY <2>1, <2>2, FS_Subset
  <2> QED
    BY <1>2, <2>1, <2>3 DEF validatePythonFunctionExpected, validateFunctionExpected
<1>3. CASE fn.obs # <<>> /\ ObservedParameters(fn) = {}
  BY <1>3 DEF validatePythonFunctionExpected, validateFunctionExpected
<1> QED
  BY <1>1, <1>2, <1>3

(* In either language, the case's expected value is one ValidateJSON reads. *)
LEMMA ExpectedIsValid ==
  ASSUME NEW j \in Jobs, ValidateJob(j), j.function # NoSpec, NEW c \in ToSet(j.cases)
  PROVE  validateFunctionExpected(j.function, c.expected)
BY ValidFunction, SameExpectations DEF validateCppFunction, validatePythonFunction

(* A record with other fields is not the error.                            *)
LEMMA NotErr ==
  /\ Null # Err
  /\ \A x : Arr(x) # Err /\ [fields |-> x] # Err
BY DEF Null, Err, Arr

(* The judge can read every expected value of a valid function job.        *)
LEMMA FunctionExpectedReadable ==
  ASSUME NEW j \in Jobs, ValidateJob(j), j.function # NoSpec, NEW c \in ToSet(j.cases)
  PROVE  testCaseExpectedOutput(j, c) # Err
<1> DEFINE fn == j.function
           e  == c.expected
<1>1. j.class = NoSpec /\ validateFunctionExpected(fn, e)
  BY OneMode, ExpectedIsValid
<1>2. CASE fn.obs = <<>>
  <2>1. Canonical(fn.ret, e) # Err
    BY <1>1, <1>2 DEF validateFunctionExpected, ValidateJSON
  <2> QED
    BY <1>1, <1>2, <2>1, NotErr DEF testCaseExpectedOutput, canonicalReturnWithPostconditions
<1>3. CASE fn.obs # <<>>
  <2> DEFINE params == [i \in ParameterObservations(fn) |->
                   LET k == fn.obs[i].parameter
                   IN  <<k, IF k \in DOMAIN e.obj["parameter"].obj
                            THEN Canonical(fn.params[k].type, e.obj["parameter"].obj[k]) ELSE Err>>]
  <2>1. Is("obj", e) /\ (returnObserved(fn) => "return" \in DOMAIN e.obj /\ Canonical(fn.ret, e.obj["return"]) # Err)
    BY <1>1, <1>3 DEF validateFunctionExpected, ValidateJSON
  <2>2. ASSUME ParameterObservations(fn) # {}
        PROVE  "parameter" \in DOMAIN e.obj /\ Is("obj", e.obj["parameter"]) /\ ~AnyErr(params)
    <3>1. ObservedParameters(fn) # {}
      BY <2>2 DEF ObservedParameters
    <3>2. /\ "parameter" \in DOMAIN e.obj /\ Is("obj", e.obj["parameter"])
          /\ DOMAIN e.obj["parameter"].obj = ObservedParameters(fn)
          /\ \A k \in ObservedParameters(fn) : Canonical(fn.params[k].type, e.obj["parameter"].obj[k]) # Err
      BY <1>1, <1>3, <3>1 DEF validateFunctionExpected, ValidateJSON
    <3>3. \A i \in ParameterObservations(fn) : fn.obs[i].parameter \in ObservedParameters(fn)
      BY DEF ObservedParameters
    <3> QED
      BY <3>2, <3>3 DEF AnyErr
  <2> QED
    BY <1>1, <1>3, <2>1, <2>2, NotErr DEF testCaseExpectedOutput
<1> QED
  BY <1>2, <1>3

(* And of a valid class job: one readable value per call.                  *)
LEMMA ClassExpectedReadable ==
  ASSUME NEW j \in Jobs, ValidateJob(j), j.class # NoSpec, NEW c \in ToSet(j.cases)
  PROVE  testCaseExpectedOutput(j, c) # Err
<1>1. validClassCase(j.class, c)
  BY ValidClass DEF validateCppClass, validatePythonClass
<1> DEFINE items == [i \in DOMAIN c.calls |->
                   LET op == Operation(j.class, c.calls[i].name)
                   IN  IF IsVoid(op.ret) THEN Null ELSE Canonical(op.ret, arrayValues(c.expected)[i])]
<1>2. \A i \in DOMAIN c.calls : items[i] # Err
  BY <1>1, NotErr DEF validClassCase, ValidateJSON
<1>3. Err \notin ToSet(items)
  BY <1>2 DEF ToSet
<1> QED
  BY <1>1, <1>3, NotErr DEF testCaseExpectedOutput, canonicalClassExpectedOutput, validClassCase

----------------------------------------------------------------------------
(* Python's copies of the metadata checks are at least as strict.          *)

(* A pointer that the Python backend accepts is no container.              *)
LEMMA PythonPointer ==
  ASSUME NEW t, NEW allowVoid, pythonType(t, allowVoid), t.ptr
  PROVE  IsNode(t)
BY DEF pythonType, validateType, IsNode

(* Every identifier of Python is one of C++.                               *)
LEMMA PythonIdentifier ==
  ASSUME NEW n, pythonIdentifier(n)
  PROVE  isCppIdentifier(n)
BY DEF pythonIdentifier, isCppIdentifier

(* Observations, order and postconditions.                                 *)
LEMMA PythonMetadata ==
  ASSUME NEW fn, pythonType(fn.ret, TRUE)
  PROVE  /\ validatePythonObservations(fn) => validateFunctionObservations(fn)
         /\ validatePythonPostconditions(fn) => validateFunctionPostconditions(fn)
<1>1. ASSUME validatePythonObservations(fn)
      PROVE  validateFunctionObservations(fn)
  <2>1. CASE fn.obs = <<>>
    BY <1>1, <2>1 DEF validatePythonObservations, validateFunctionObservations
  <2>2. CASE fn.obs # <<>>
    <3>1. ASSUME NEW i \in DOMAIN fn.obs
          PROVE  \/ fn.obs[i].kind = "return" /\ ~IsVoid(fn.ret)
                 \/ /\ fn.obs[i].kind = "parameter"
                    /\ fn.obs[i].parameter \in DOMAIN fn.params
                    /\ \/ fn.obs[i].view \in {"", "full"} /\ ~fn.obs[i].lengthFromReturn
                       \/ /\ fn.obs[i].view = "prefix" /\ fn.obs[i].lengthFromReturn
                          /\ IsVector(fn.params[fn.obs[i].parameter].type)
                          /\ fn.ret \in {Scalar("int"), Scalar("long long")}
      <4>1. fn.obs[i] \in ToSet(fn.obs)
        BY DEF ToSet
      <4> QED
        BY <1>1, <2>2, <4>1 DEF validatePythonObservations
    <3> QED
      BY <1>1, <2>2, <3>1 DEF validatePythonObservations, validateFunctionObservations
  <2> QED
    BY <2>1, <2>2
<1>2. ASSUME validatePythonPostconditions(fn)
      PROVE  validateFunctionPostconditions(fn)
  BY <1>2, PythonPointer DEF validatePythonPostconditions, validateFunctionPostconditions
<1> QED
  BY <1>1, <1>2

(* A function job Python accepts passes the checks for C++, which besides  *)
(* limit the size of a case.                                               *)
LEMMA PythonFunctionIsCpp ==
  ASSUME NEW j \in Jobs, validatePythonFunction(j), \A c \in ToSet(j.cases) : c.size <= MaxCaseSize
  PROVE  validateCppFunction([j EXCEPT !.language = "cpp"])
<1> DEFINE fn == j.function
           jj == [j EXCEPT !.language = "cpp"]
<1>1. jj.function = fn /\ jj.cases = j.cases
  BY JobsAssumption
<1>2. validateFunctionObservations(fn) /\ validateFunctionPostconditions(fn) /\ validateFunctionComparison(fn)
  BY PythonMetadata DEF validatePythonFunction, validateFunctionComparison
<1>3. /\ isCppIdentifier(fn.name) /\ Resolves(fn.ret) /\ Len(fn.params) <= MaxParams
      /\ \A k \in DOMAIN fn.params :
           isCppIdentifier(fn.params[k].name) /\ Resolves(fn.params[k].type) /\ ~IsVoid(fn.params[k].type)
  BY PythonIdentifier DEF validatePythonFunction
<1>4. Distinct(CaseIds(jj))
  BY <1>1 DEF validatePythonFunction, CaseIds
<1>5. \A c \in ToSet(j.cases) :
        /\ DOMAIN c.args = DOMAIN fn.params
        /\ validateFunctionExpected(fn, c.expected)
        /\ \A k \in DOMAIN c.args : ValidateJSON(fn.params[k].type, c.args[k])
        /\ c.size <= MaxCaseSize
  BY SameExpectations DEF validatePythonFunction
<1> QED
  BY <1>1, <1>2, <1>3, <1>4, <1>5 DEF validateCppFunction

(* So does a class job.                                                    *)
LEMMA PythonClassIsCpp ==
  ASSUME NEW j \in Jobs, validatePythonClass(j)
  PROVE  validateCppClass([j EXCEPT !.language = "cpp"])
<1> DEFINE cls == j.class
           jj  == [j EXCEPT !.language = "cpp"]
<1>1. jj.class = cls /\ jj.cases = j.cases /\ jj.source = j.source
  BY JobsAssumption
<1>2. Distinct(CaseIds(jj))
  BY <1>1 DEF validatePythonClass, CaseIds
<1>3. \A p \in ToSet(cls.ctor) :
        /\ p.name = "" \/ isCppIdentifier(p.name)
        /\ Resolves(p.type) /\ ~IsVoid(p.type)
  BY PythonIdentifier DEF validatePythonClass
<1>4. \A op \in ToSet(cls.ops) :
        /\ isCppIdentifier(op.name) /\ Resolves(op.ret)
        /\ \A p \in ToSet(op.params) :
             /\ p.name = "" \/ isCppIdentifier(p.name)
             /\ Resolves(p.type) /\ ~IsVoid(p.type)
  BY PythonIdentifier DEF validatePythonClass
<1> QED
  BY <1>1, <1>2, <1>3, <1>4, PythonIdentifier DEF validatePythonClass, validateCppClass

(* What is valid for Python is valid for C++ with the same metadata.       *)
LEMMA PythonIsCpp ==
  ASSUME NEW j \in Jobs, j.language = "python", ExecutionMode(j) # "stdin", ValidateJob(j),
         \A c \in ToSet(j.cases) : c.size <= MaxCaseSize
  PROVE  ValidateJob([j EXCEPT !.language = "cpp"])
<1> DEFINE jj == [j EXCEPT !.language = "cpp"]
<1>1. /\ jj.language = "cpp" /\ jj.mode = j.mode /\ jj.function = j.function /\ jj.class = j.class
      /\ jj.cases = j.cases /\ jj.source = j.source /\ jj.time = j.time /\ jj.memory = j.memory
  BY JobsAssumption
<1>2. ExecutionMode(jj) = ExecutionMode(j)
  BY <1>1 DEF ExecutionMode
<1>3. CASE j.function # NoSpec
  <2>1. validateCppFunction(jj)
    BY <1>3, ValidFunction, PythonFunctionIsCpp
  <2> QED
    BY <1>1, <1>2, <1>3, <2>1 DEF ValidateJob
<1>4. CASE j.function = NoSpec
  <2>1. j.class # NoSpec /\ ExecutionMode(j) = "class"
    BY <1>4, OneMode DEF ValidateJob
  <2>2. validateCppClass(jj)
    BY <2>1, ValidClass, PythonClassIsCpp
  <2>3. generateModeProgram(jj)
    BY <1>1, <1>2, <1>4, <2>1, <2>2 DEF generateModeProgram
  <2> QED
    BY <1>1, <1>2, <1>4, <2>1, <2>3 DEF ValidateJob
<1> QED
  BY <1>3, <1>4

----------------------------------------------------------------------------
(* The verdict is the one the values deserve, part by part: the result,    *)
(* the observed parameters, the postconditions, then the whole text.       *)

(* The object a driver prints for a function with observations.            *)
ObservedObject(fn, r, params, posts) ==
  [fields |-> Field(returnObserved(fn), "return", r) \o Field(ParameterObservations(fn) # {}, "parameter", params)
              \o Field(fn.posts # <<>>, "postconditions", posts)]

(* Two such objects are equal when their fields are.                       *)
LEMMA SameFields ==
  ASSUME NEW fn, NEW x1, NEW y1, NEW z1, NEW x2, NEW y2, NEW z2
  PROVE  ObservedObject(fn, x1, y1, z1) = ObservedObject(fn, x2, y2, z2)
         <=> /\ returnObserved(fn) => x1 = x2
             /\ ParameterObservations(fn) # {} => y1 = y2
             /\ fn.posts # <<>> => z1 = z2
<1>1. CASE returnObserved(fn) /\ ParameterObservations(fn) # {} /\ fn.posts # <<>>
  BY <1>1 DEF ObservedObject, Field
<1>2. CASE returnObserved(fn) /\ ParameterObservations(fn) # {} /\ fn.posts = <<>>
  BY <1>2 DEF ObservedObject, Field
<1>3. CASE returnObserved(fn) /\ ParameterObservations(fn) = {} /\ fn.posts # <<>>
  BY <1>3 DEF ObservedObject, Field
<1>4. CASE returnObserved(fn) /\ ParameterObservations(fn) = {} /\ fn.posts = <<>>
  BY <1>4 DEF ObservedObject, Field
<1>5. CASE ~returnObserved(fn) /\ ParameterObservations(fn) # {} /\ fn.posts # <<>>
  BY <1>5 DEF ObservedObject, Field
<1>6. CASE ~returnObserved(fn) /\ ParameterObservations(fn) # {} /\ fn.posts = <<>>
  BY <1>6 DEF ObservedObject, Field
<1>7. CASE ~returnObserved(fn) /\ ParameterObservations(fn) = {} /\ fn.posts # <<>>
  BY <1>7 DEF ObservedObject, Field
<1>8. CASE ~returnObserved(fn) /\ ParameterObservations(fn) = {} /\ fn.posts = <<>>
  BY <1>8 DEF ObservedObject, Field
<1> QED
  BY <1>1, <1>2, <1>3, <1>4, <1>5, <1>6, <1>7, <1>8

(* A postcondition holds of the objects exactly when the driver finds it.  *)
LEMMA IdentityText ==
  ASSUME NEW p, NEW ret, NEW other,
         ret # Null /\ other # Null /\ ret.root = other.root => ObjectsOf(ret) = ObjectsOf(other)
  PROVE  Bool(postconditionHolds(p, ret, other)) = Bool(TRUE) <=> CorrectIdentity(p, ret, other)
<1>1. postconditionHolds(p, ret, other) <=> CorrectIdentity(p, ret, other)
  BY DEF postconditionHolds, CorrectIdentity, SameObject
<1>2. postconditionHolds(p, ret, other) \in BOOLEAN
  BY DEF postconditionHolds
<1> QED
  BY <1>1, <1>2 DEF Bool

(* Two fields and an empty list make a list of two.                        *)
LEMMA TwoFields ==
  ASSUME NEW a, NEW b
  PROVE  <<a>> \o <<b>> \o <<>> = <<a, b>>
<1> DEFINE s == <<a>> \o <<b>>
<1>1. <<a>> \in Seq({a, b}) /\ <<b>> \in Seq({a, b}) /\ <<a, b>> \in Seq({a, b})
      /\ Len(<<a>>) = 1 /\ Len(<<b>>) = 1 /\ Len(<<a, b>>) = 2
  OBVIOUS
<1>2. s \in Seq({a, b}) /\ Len(s) = 2 /\ s[1] = a /\ s[2] = b
  BY <1>1, ConcatProperties
<1>3. s = <<a, b>>
  <2> HIDE DEF s
  <2>1. \A i \in 1 .. Len(s) : s[i] = <<a, b>>[i]
    BY <1>2
  <2> QED
    BY <1>1, <1>2, <2>1, SeqEqual
<1> QED
  BY <1>3

(* What is said of a run of a function case: it returned ret and left post.*)
FunctionRun(j, c, ret, post) ==
  /\ j \in Jobs /\ ValidateJob(j) /\ j.function # NoSpec /\ c \in ToSet(j.cases)
  /\ Err \notin ToSet(driverArgs(j, c))
  /\ ret \in Returns(j.function, driverArgs(j, c))
  /\ DOMAIN driverArgs(j, c) = DOMAIN j.function.params
  /\ \A k \in DOMAIN j.function.params : post[k] \in Leaves(j.function, driverArgs(j, c), k)
  /\ RepresentableFunction(j, c, ret, post)

(* The metadata of a valid function job. *)
LEMMA FunctionMetadata ==
  ASSUME NEW j \in Jobs, ValidateJob(j), j.function # NoSpec
  PROVE  /\ validateFunctionObservations(j.function)
         /\ validateFunctionComparison(j.function)
         /\ validateFunctionPostconditions(j.function)
         /\ \A c \in ToSet(j.cases) : DOMAIN c.args = DOMAIN j.function.params
<1>1. CASE validateCppFunction(j)
  BY <1>1 DEF validateCppFunction
<1>2. CASE validatePythonFunction(j)
  BY <1>2, PythonMetadata DEF validatePythonFunction, validateFunctionComparison
<1> QED
  BY <1>1, <1>2, ValidFunction

(* No job both ignores the order of its result and asks for identities. *)
LEMMA OrderOrIdentity ==
  ASSUME NEW fn, validateFunctionComparison(fn), validateFunctionPostconditions(fn), fn.order = "unordered"
  PROVE  fn.posts = <<>> /\ returnObserved(fn) 
BY DEF validateFunctionComparison, validateFunctionPostconditions, IsNode, IsVector

(* Where the observations of parameters are. *)
LEMMA ObservedInDomain ==
  ASSUME NEW fn, validateFunctionObservations(fn), NEW i \in ParameterObservations(fn)
  PROVE  fn.obs[i].parameter \in DOMAIN fn.params /\ fn.obs[i].parameter \in ObservedParameters(fn) /\ fn.obs # <<>>
<1>1. i \in DOMAIN fn.obs /\ fn.obs[i].kind = "parameter"
  BY DEF ParameterObservations
<1>2. fn.obs # <<>>
  BY <1>1
<1>3. fn.obs[i].parameter \in ObservedParameters(fn)
  BY DEF ObservedParameters
<1> QED
  BY <1>1, <1>2, <1>3 DEF validateFunctionObservations

(* The text of the return value. *)
ReturnText(j, ret) ==
  LET fn == j.function
  IN IF returnObserved(fn) \/ (j.language = "python" /\ ~IsVoid(fn.ret))
                THEN Serialize(j.language, fn.ret, ret) ELSE Null

(* What the encoders promise holds of the values of a run.                 *)
LEMMA EncodersOfRun ==
  ASSUME NEW j, NEW c, NEW ret, NEW post, FunctionRun(j, c, ret, post)
  PROVE  FunctionEncoders(j, c)
BY EncodersAssumption DEF FunctionRun

(* The driver always prints the result of such a run.                      *)
LEMMA ReturnIsText ==
  ASSUME NEW j, NEW c, NEW ret, NEW post, FunctionRun(j, c, ret, post)
  PROVE  ReturnText(j, ret) # Err
<1>1. FunctionEncoders(j, c) /\ Structured(j.function.ret, ret) /\ ret \in Returns(j.function, driverArgs(j, c))
  BY EncodersOfRun DEF FunctionRun, RepresentableFunction
<1>2. ~IsVoid(j.function.ret) => Serialize(j.language, j.function.ret, ret) # Err
  BY <1>1 DEF FunctionEncoders
<1>3. returnObserved(j.function) => ~IsVoid(j.function.ret)
  BY FunctionMetadata DEF validateFunctionObservations, returnObserved, FunctionRun
<1> QED
  BY <1>2, <1>3, NotErr DEF ReturnText

(* The result's text is the expected one when the result is.               *)
LEMMA ReturnIsCompared ==
  ASSUME NEW j, NEW c, NEW ret, NEW post, FunctionRun(j, c, ret, post), j.function.order # "unordered",
         returnObserved(j.function)
  PROVE  ReturnText(j, ret) = Canonical(j.function.ret, ExpectedReturn(j.function, c.expected))
           <=> CorrectReturn(j.function, c.expected, ret)
<1>1. FunctionEncoders(j, c) /\ Structured(j.function.ret, ret) /\ ret \in Returns(j.function, driverArgs(j, c))
      /\ Plain(j.language, j.function.ret, ret, ExpectedReturn(j.function, c.expected))
  BY EncodersOfRun DEF FunctionRun, RepresentableFunction
<1>2. Encodes(j.language, j.function.ret, ret, ExpectedReturn(j.function, c.expected))
  BY <1>1 DEF FunctionEncoders
<1> QED
  BY <1>2 DEF Encodes, ReturnText, CorrectReturn

(* The same with both texts sorted.                                        *)
LEMMA ReturnIsComparedUnordered ==
  ASSUME NEW j, NEW c, NEW ret, NEW post, FunctionRun(j, c, ret, post), j.function.order = "unordered",
         returnObserved(j.function)
  PROVE  LET a == CanonicalSorted(j.function.ret, ReturnText(j, ret))
             e == CanonicalSorted(j.function.ret, Canonical(j.function.ret, ExpectedReturn(j.function, c.expected)))
         IN  a # Err /\ e # Err /\ a = e <=> CorrectReturn(j.function, c.expected, ret)
<1>1. FunctionEncoders(j, c) /\ Structured(j.function.ret, ret) /\ ret \in Returns(j.function, driverArgs(j, c))
      /\ Plain(j.language, j.function.ret, ret, ExpectedReturn(j.function, c.expected))
  BY EncodersOfRun DEF FunctionRun, RepresentableFunction
<1>2. EncodesUnordered(j.language, j.function.ret, ret, ExpectedReturn(j.function, c.expected))
  BY <1>1 DEF FunctionEncoders
<1>3. Serialize(j.language, j.function.ret, ret) # Err
  BY ReturnIsText DEF ReturnText
<1> QED
  BY <1>2, <1>3 DEF EncodesUnordered, ReturnText, CorrectReturn

(* So is the text of an observed parameter, in the view asked for.         *)
LEMMA ParameterIsCompared ==
  ASSUME NEW j, NEW c, NEW ret, NEW post, FunctionRun(j, c, ret, post), NEW i \in ParameterObservations(j.function)
  PROVE  LET fn == j.function
             o  == fn.obs[i]
             want == Canonical(fn.params[o.parameter].type, c.expected.obj["parameter"].obj[o.parameter])
         IN  /\ o.parameter \in DOMAIN c.expected.obj["parameter"].obj
             /\ want # Err
             /\ viewedText(j.language, fn, o, post, ret) = want <=> CorrectParameter(fn, c.expected, ret, post, o)
<1> DEFINE fn == j.function
           o  == fn.obs[i]
           k  == o.parameter
           t  == fn.params[k].type
           e  == c.expected.obj["parameter"].obj[k]
<1>1. j \in Jobs /\ ValidateJob(j) /\ fn # NoSpec /\ c \in ToSet(j.cases)
  BY DEF FunctionRun
<1>2. k \in DOMAIN fn.params /\ k \in ObservedParameters(fn) /\ fn.obs # <<>>
  BY <1>1, FunctionMetadata, ObservedInDomain
<1>3. k \in DOMAIN c.expected.obj["parameter"].obj /\ Canonical(t, e) # Err
  BY <1>1, <1>2, ExpectedIsValid DEF validateFunctionExpected, ValidateJSON
<1>4. /\ FunctionEncoders(j, c) /\ Structured(fn.ret, ret) /\ ret \in Returns(fn, driverArgs(j, c))
      /\ post[k] \in Leaves(fn, driverArgs(j, c), k)
      /\ Plain(j.language, t, post[k], e)
  BY <1>2, EncodersOfRun DEF FunctionRun, RepresentableFunction
<1>5. (o.view = "prefix" => post[k] # Null) => Encodes(j.language, t, View(o, post[k], ret), e)
  BY <1>4 DEF FunctionEncoders
<1>6. viewedText(j.language, fn, o, post, ret) = Canonical(t, e) <=> CorrectParameter(fn, c.expected, ret, post, o)
  <2>1. CASE o.view = "prefix" /\ post[k] = Null
    BY <2>1, <1>3 DEF viewedText, CorrectParameter
  <2>2. CASE o.view = "prefix" /\ post[k] # Null
    BY <2>2, <1>5 DEF viewedText, CorrectParameter, Encodes, View
  <2>3. CASE o.view # "prefix"
    BY <2>3, <1>5 DEF viewedText, CorrectParameter, Encodes, View
  <2> QED
    BY <2>1, <2>2, <2>3
<1> QED
  BY <1>3, <1>6

(* The postconditions print as true when the identities are right.         *)
LEMMA PostconditionsAreCompared ==
  ASSUME NEW j, NEW c, NEW ret, NEW post, FunctionRun(j, c, ret, post)
  PROVE  [fields |-> postconditionFields(j.function, ret, post)] = TruePostconditions(j.function)
         <=> \A i \in DOMAIN j.function.posts :
               CorrectIdentity(j.function.posts[i], ret, post[j.function.posts[i].from])
<1> DEFINE fn == j.function
           holds(i) == Bool(postconditionHolds(fn.posts[i], ret, post[fn.posts[i].from]))
<1>1. ASSUME NEW i \in DOMAIN fn.posts
      PROVE  holds(i) = Bool(TRUE) <=> CorrectIdentity(fn.posts[i], ret, post[fn.posts[i].from])
  <2>1. fn.posts[i] \in ToSet(fn.posts) /\ fn.posts # <<>>
    BY DEF ToSet
  <2>2. fn.posts[i].from \in DOMAIN fn.params
    BY <2>1, FunctionMetadata DEF FunctionRun, validateFunctionPostconditions
  <2>3. /\ FunctionEncoders(j, c) /\ Structured(fn.ret, ret) /\ ret \in Returns(fn, driverArgs(j, c))
        /\ post[fn.posts[i].from] \in Leaves(fn, driverArgs(j, c), fn.posts[i].from)
    BY <2>2, EncodersOfRun DEF FunctionRun, RepresentableFunction
  <2>4. LET v == post[fn.posts[i].from]
        IN  ret # Null /\ v # Null /\ ret.root = v.root => ObjectsOf(ret) = ObjectsOf(v)
    BY <2>1, <2>3 DEF FunctionEncoders
  <2> QED
    BY <2>4, IdentityText
<1>2. [fields |-> postconditionFields(fn, ret, post)] = TruePostconditions(fn)
        <=> \A i \in DOMAIN fn.posts : holds(i) = Bool(TRUE)
  <2>1. [fields |-> [i \in DOMAIN fn.posts |-> <<i, holds(i)>>]] = [fields |-> [i \in DOMAIN fn.posts |-> <<i, Bool(TRUE)>>]]
         <=> \A i \in DOMAIN fn.posts : holds(i) = Bool(TRUE)
    <3> HIDE DEF holds
    <3> QED OBVIOUS
  <2> QED
    BY <2>1 DEF postconditionFields, TruePostconditions
<1> QED
  BY <1>1, <1>2

(* The texts of the observed parameters, printed and expected.             *)
PrintedParameters(j, ret, post) ==
  [i \in ParameterObservations(j.function) |->
     <<j.function.obs[i].parameter, viewedText(j.language, j.function, j.function.obs[i], post, ret)>>]

ExpectedParameters(j, c) ==
  [i \in ParameterObservations(j.function) |->
     LET k == j.function.obs[i].parameter
     IN  <<k, IF k \in DOMAIN c.expected.obj["parameter"].obj
              THEN Canonical(j.function.params[k].type, c.expected.obj["parameter"].obj[k]) ELSE Err>>]

(* The object of parameters is the expected one when they all are.         *)
LEMMA ParametersAreCompared ==
  ASSUME NEW j, NEW c, NEW ret, NEW post, FunctionRun(j, c, ret, post)
  PROVE  /\ ~AnyErr(ExpectedParameters(j, c))
         /\ [fields |-> PrintedParameters(j, ret, post)] = [fields |-> ExpectedParameters(j, c)]
            <=> \A i \in ParameterObservations(j.function) :
                  CorrectParameter(j.function, c.expected, ret, post, j.function.obs[i])
         /\ [fields |-> PrintedParameters(j, ret, post)] = [fields |-> ExpectedParameters(j, c)]
            => ~AnyErr(PrintedParameters(j, ret, post))
<1> DEFINE fn == j.function
           key(i) == fn.obs[i].parameter
           x(i) == viewedText(j.language, fn, fn.obs[i], post, ret)
           y(i) == IF key(i) \in DOMAIN c.expected.obj["parameter"].obj
                   THEN Canonical(fn.params[key(i)].type, c.expected.obj["parameter"].obj[key(i)]) ELSE Err
<1>1. \A i \in ParameterObservations(fn) :
        y(i) # Err /\ (x(i) = y(i) <=> CorrectParameter(fn, c.expected, ret, post, fn.obs[i]))
  BY ParameterIsCompared
<1>2. PrintedParameters(j, ret, post) = [i \in ParameterObservations(fn) |-> <<key(i), x(i)>>]
  BY DEF PrintedParameters
<1>3. ExpectedParameters(j, c) = [i \in ParameterObservations(fn) |-> <<key(i), y(i)>>]
  BY DEF ExpectedParameters
<1> HIDE DEF x, y, key
<1>4. PrintedParameters(j, ret, post) = ExpectedParameters(j, c) <=> \A i \in ParameterObservations(fn) : x(i) = y(i)
  BY <1>2, <1>3
<1>5. ~AnyErr(ExpectedParameters(j, c))
  BY <1>1, <1>3 DEF AnyErr
<1>6. [fields |-> PrintedParameters(j, ret, post)] = [fields |-> ExpectedParameters(j, c)]
      <=> PrintedParameters(j, ret, post) = ExpectedParameters(j, c)
  OBVIOUS
<1> QED
  BY <1>1, <1>4, <1>5, <1>6

(* No observations: the result alone, or with the postconditions.          *)
LEMMA BareResult ==
  ASSUME NEW j, NEW c, NEW ret, NEW post, FunctionRun(j, c, ret, post), j.function.obs = <<>>
  PROVE  LET text == generateObservations(j.language, j.function, ret, post)
         IN  text # Err /\ functionOutputsEqual(j, text, testCaseExpectedOutput(j, c))
             <=> CorrectFunction(j.function, c.expected, ret, post)
<1> DEFINE fn == j.function
           text == generateObservations(j.language, fn, ret, post)
           r == ReturnText(j, ret)
           want == Canonical(fn.ret, c.expected)
<1>1. /\ j \in Jobs /\ ValidateJob(j) /\ fn # NoSpec /\ c \in ToSet(j.cases) /\ j.class = NoSpec
      /\ validateFunctionComparison(fn) /\ validateFunctionPostconditions(fn)
  BY FunctionMetadata, OneMode DEF FunctionRun
<1>2. /\ ParameterObservations(fn) = {} /\ returnObserved(fn) /\ ExpectedReturn(fn, c.expected) = c.expected
      /\ r # Err /\ want # Err
  <2>1. ParameterObservations(fn) = {} /\ returnObserved(fn) /\ ExpectedReturn(fn, c.expected) = c.expected
    BY DEF ParameterObservations, returnObserved, ExpectedReturn
  <2>2. r # Err
    BY ReturnIsText
  <2>3. want # Err
    BY <1>1, ExpectedIsValid DEF validateFunctionExpected, ValidateJSON
  <2> QED
    BY <2>1, <2>2, <2>3
<1>3. CASE fn.posts = <<>>
  <2>1. text = r /\ testCaseExpectedOutput(j, c) = want
    BY <1>1, <1>3 DEF generateObservations, testCaseExpectedOutput, ReturnText
  <2>2. CorrectFunction(fn, c.expected, ret, post) <=> CorrectReturn(fn, c.expected, ret)
    BY <1>2, <1>3 DEF CorrectFunction
  <2>3. CASE fn.order # "unordered"
    BY <1>1, <1>2, <2>1, <2>2, <2>3, ReturnIsCompared DEF functionOutputsEqual
  <2>4. CASE fn.order = "unordered"
    <3>1. canonicalizeUnorderedFunctionOutput(fn, r) = CanonicalSorted(fn.ret, r)
          /\ canonicalizeUnorderedFunctionOutput(fn, want) = CanonicalSorted(fn.ret, want)
      BY <1>3 DEF canonicalizeUnorderedFunctionOutput
    <3> QED
      BY <1>1, <1>2, <2>1, <2>2, <2>4, <3>1, ReturnIsComparedUnordered DEF functionOutputsEqual
  <2> QED
    BY <2>3, <2>4
<1>4. CASE fn.posts # <<>>
  <2>1. fn.order # "unordered"
    BY <1>1, <1>4, OrderOrIdentity
  <2>2. testCaseExpectedOutput(j, c)
          = [fields |-> <<<<"return", want>>, <<"postconditions", TruePostconditions(fn)>>>>]
    BY <1>1, <1>2, <1>4 DEF testCaseExpectedOutput, canonicalReturnWithPostconditions
  <2> DEFINE params == [i \in ParameterObservations(fn) |->
                   <<fn.obs[i].parameter, viewedText(j.language, fn, fn.obs[i], post, ret)>>]
             pf == [fields |-> postconditionFields(fn, ret, post)]
  <2>3. ~AnyErr(params)
    BY <1>2 DEF AnyErr
  <2>4. text = [fields |-> Field(returnObserved(fn), "return", r)
                       \o Field(ParameterObservations(fn) # {}, "parameter", [fields |-> params])
                       \o Field(fn.posts # <<>>, "postconditions", pf)]
    BY <1>2, <1>4, <2>3 DEF generateObservations, ReturnText
  <2>5. text = [fields |-> <<<<"return", r>>, <<"postconditions", pf>>>>]
    BY <1>2, <1>4, <2>4 DEF Field
  <2> HIDE DEF params, pf, text
  <2>6. text = testCaseExpectedOutput(j, c) <=> r = want /\ pf = TruePostconditions(fn)
    BY <2>2, <2>5
  <2>7. text # Err
    BY <2>5, NotErr
  <2> QED
    BY <1>1, <1>2, <2>1, <2>6, <2>7, ReturnIsCompared, PostconditionsAreCompared DEF functionOutputsEqual, CorrectFunction, pf, text
<1> QED
  BY <1>3, <1>4

(* With observations: the fields, in the order the text has them.          *)
LEMMA ObservedFields ==
  ASSUME NEW j, NEW c, NEW ret, NEW post, FunctionRun(j, c, ret, post), j.function.obs # <<>>
  PROVE  LET fn == j.function
         IN  /\ generateObservations(j.language, fn, ret, post)
                  = IF AnyErr(PrintedParameters(j, ret, post)) THEN Err
                    ELSE ObservedObject(fn, ReturnText(j, ret), [fields |-> PrintedParameters(j, ret, post)],
                                        [fields |-> postconditionFields(fn, ret, post)])
             /\ testCaseExpectedOutput(j, c)
                  = ObservedObject(fn, Canonical(fn.ret, ExpectedReturn(fn, c.expected)),
                                   [fields |-> ExpectedParameters(j, c)], TruePostconditions(fn))
<1> DEFINE fn == j.function
           e  == c.expected
<1>1. /\ j \in Jobs /\ ValidateJob(j) /\ fn # NoSpec /\ c \in ToSet(j.cases) /\ j.class = NoSpec
      /\ validateFunctionExpected(fn, e)
  BY OneMode, ExpectedIsValid DEF FunctionRun
<1>2. ReturnText(j, ret) # Err
  BY ReturnIsText
<1>3. generateObservations(j.language, fn, ret, post)
       = IF AnyErr(PrintedParameters(j, ret, post)) THEN Err
         ELSE ObservedObject(fn, ReturnText(j, ret), [fields |-> PrintedParameters(j, ret, post)],
                             [fields |-> postconditionFields(fn, ret, post)])
  BY <1>2, Zenon DEF generateObservations, ReturnText, PrintedParameters, ObservedObject
<1>4. Is("obj", e) /\ ExpectedReturn(fn, e) = e.obj["return"]
       /\ (returnObserved(fn) => "return" \in DOMAIN e.obj /\ Canonical(fn.ret, e.obj["return"]) # Err)
  BY <1>1 DEF validateFunctionExpected, ValidateJSON, ExpectedReturn
<1>5. ParameterObservations(fn) # {} => "parameter" \in DOMAIN e.obj /\ Is("obj", e.obj["parameter"])
  BY <1>1 DEF validateFunctionExpected, ObservedParameters
<1>6. ~AnyErr(ExpectedParameters(j, c))
  BY ParametersAreCompared
<1>7. testCaseExpectedOutput(j, c)
       = ObservedObject(fn, Canonical(fn.ret, e.obj["return"]), [fields |-> ExpectedParameters(j, c)],
                        TruePostconditions(fn))
  BY <1>1, <1>4, <1>5, <1>6, Zenon DEF testCaseExpectedOutput, ExpectedParameters, ObservedObject
<1> QED
  BY <1>3, <1>4, <1>7

(* In order, the texts are equal when the parts are correct.               *)
LEMMA OrderedResult ==
  ASSUME NEW j, NEW c, NEW ret, NEW post, FunctionRun(j, c, ret, post), j.function.obs # <<>>,
         j.function.order # "unordered"
  PROVE  LET text == generateObservations(j.language, j.function, ret, post)
         IN  text # Err /\ functionOutputsEqual(j, text, testCaseExpectedOutput(j, c))
             <=> CorrectFunction(j.function, c.expected, ret, post)
<1> DEFINE fn == j.function
           text == generateObservations(j.language, fn, ret, post)
           obs == ParameterObservations(fn) # {}
           pp == [fields |-> PrintedParameters(j, ret, post)]
           ep == [fields |-> ExpectedParameters(j, c)]
           pf == [fields |-> postconditionFields(fn, ret, post)]
           r == ReturnText(j, ret)
           want == Canonical(fn.ret, ExpectedReturn(fn, c.expected))
           printed == ObservedObject(fn, r, pp, pf)
           expected == ObservedObject(fn, want, ep, TruePostconditions(fn))
<1>1. text = (IF AnyErr(PrintedParameters(j, ret, post)) THEN Err ELSE printed) /\ testCaseExpectedOutput(j, c) = expected
  BY ObservedFields
<1>2. printed # Err /\ expected # Err
  BY NotErr DEF ObservedObject
<1> HIDE DEF text, pp, ep, pf, r, want
<1>3. printed = expected <=> /\ returnObserved(fn) => r = want
                             /\ obs => pp = ep
                             /\ fn.posts # <<>> => pf = TruePostconditions(fn)
  BY SameFields
<1> HIDE DEF printed, expected
<1>4. returnObserved(fn) => (r = want <=> CorrectReturn(fn, c.expected, ret))
  BY ReturnIsCompared DEF r, want
<1>5. ~returnObserved(fn) => CorrectReturn(fn, c.expected, ret)
  BY DEF CorrectReturn
<1>6. /\ pp = ep <=> \A i \in ParameterObservations(fn) : CorrectParameter(fn, c.expected, ret, post, fn.obs[i])
      /\ pp = ep => ~AnyErr(PrintedParameters(j, ret, post))
  BY ParametersAreCompared DEF pp, ep
<1>7. ~obs => ~AnyErr(PrintedParameters(j, ret, post))
  BY DEF AnyErr, PrintedParameters
<1>8. pf = TruePostconditions(fn) <=> \A i \in DOMAIN fn.posts : CorrectIdentity(fn.posts[i], ret, post[fn.posts[i].from])
  BY PostconditionsAreCompared DEF pf
<1>9. CorrectFunction(fn, c.expected, ret, post) <=>
        /\ returnObserved(fn) => r = want
        /\ obs => pp = ep
        /\ fn.posts # <<>> => pf = TruePostconditions(fn)
  BY <1>4, <1>5, <1>6, <1>8 DEF CorrectFunction
<1>10. text # Err /\ text = expected <=> CorrectFunction(fn, c.expected, ret, post)
  BY <1>1, <1>2, <1>3, <1>6, <1>7, <1>9
<1>11. functionOutputsEqual(j, text, testCaseExpectedOutput(j, c)) <=> text = expected
  BY <1>1 DEF functionOutputsEqual
<1> QED
  BY <1>10, <1>11 DEF text

(* What sorting makes of an object with a return value.                    *)
SortedObject(fn, r, params) ==
  [sorted |-> [k \in {"return"} \cup (IF ParameterObservations(fn) # {} THEN {"parameter"} ELSE {}) |->
                 IF k = "return" THEN CanonicalSorted(fn.ret, r) ELSE params]]

(* canonicalizeUnorderedFunctionOutput finds and sorts the result.         *)
LEMMA SortsTheReturn ==
  ASSUME NEW fn, NEW r, NEW params, NEW posts, fn.obs # <<>>, fn.posts = <<>>, returnObserved(fn)
  PROVE  canonicalizeUnorderedFunctionOutput(fn, ObservedObject(fn, r, params, posts))
           = IF CanonicalSorted(fn.ret, r) = Err THEN Err ELSE SortedObject(fn, r, params)
<1> DEFINE x == ObservedObject(fn, r, params, posts)
           keys == {x.fields[i][1] : i \in DOMAIN x.fields}
           text(k) == x.fields[CHOOSE i \in DOMAIN x.fields : x.fields[i][1] = k][2]
<1>1. CASE ParameterObservations(fn) = {}
  <2>1. x.fields = <<<<"return", r>>>>
    BY <1>1 DEF ObservedObject, Field
  <2>2. keys = {"return"} /\ text("return") = r
    <3> HIDE DEF x
    <3>1. DOMAIN x.fields = {1} /\ x.fields[1] = <<"return", r>>
      BY <2>1
    <3> QED
      BY <3>1
  <2>3. canonicalizeUnorderedFunctionOutput(fn, x)
          = IF "return" \notin keys \/ CanonicalSorted(fn.ret, text("return")) = Err THEN Err
            ELSE [sorted |-> [k \in keys |-> IF k = "return" THEN CanonicalSorted(fn.ret, text(k)) ELSE text(k)]]
    <3> HIDE DEF x
    <3> QED
    BY Zenon DEF canonicalizeUnorderedFunctionOutput
  <2>4. [k \in keys |-> IF k = "return" THEN CanonicalSorted(fn.ret, text(k)) ELSE text(k)]
         = [k \in {"return"} |-> IF k = "return" THEN CanonicalSorted(fn.ret, r) ELSE params]
    <3> HIDE DEF x, keys, text
    <3> QED
    BY <2>2
  <2> HIDE DEF x, keys, text
  <2> QED
    BY <1>1, <2>2, <2>3, <2>4 DEF SortedObject, x
<1>2. CASE ParameterObservations(fn) # {}
  <2>1. x.fields = <<<<"return", r>>, <<"parameter", params>>>>
    <3>1. x.fields = <<<<"return", r>>>> \o <<<<"parameter", params>>>> \o <<>>
      BY <1>2 DEF ObservedObject, Field
    <3> HIDE DEF x
    <3> QED
      BY <3>1, TwoFields
  <2>2. keys = {"return", "parameter"} /\ text("return") = r /\ text("parameter") = params
    <3> HIDE DEF x
    <3>1. DOMAIN x.fields = {1, 2} /\ x.fields[1] = <<"return", r>> /\ x.fields[2] = <<"parameter", params>>
      BY <2>1
    <3>2. x.fields[1][1] = "return" /\ x.fields[2][1] = "parameter" /\ x.fields[1][2] = r /\ x.fields[2][2] = params
      BY <3>1
    <3>3. (CHOOSE i \in DOMAIN x.fields : x.fields[i][1] = "return") = 1
      BY <3>1, <3>2
    <3>4. (CHOOSE i \in DOMAIN x.fields : x.fields[i][1] = "parameter") = 2
      BY <3>1, <3>2
    <3> QED
      BY <3>1, <3>2, <3>3, <3>4
  <2>3. canonicalizeUnorderedFunctionOutput(fn, x)
          = IF "return" \notin keys \/ CanonicalSorted(fn.ret, text("return")) = Err THEN Err
            ELSE [sorted |-> [k \in keys |-> IF k = "return" THEN CanonicalSorted(fn.ret, text(k)) ELSE text(k)]]
    <3> HIDE DEF x
    <3> QED
    BY Zenon DEF canonicalizeUnorderedFunctionOutput
  <2>4. [k \in keys |-> IF k = "return" THEN CanonicalSorted(fn.ret, text(k)) ELSE text(k)]
         = [k \in {"return", "parameter"} |-> IF k = "return" THEN CanonicalSorted(fn.ret, r) ELSE params]
    <3> HIDE DEF x, keys, text
    <3> QED
    BY <2>2
  <2> HIDE DEF x, keys, text
  <2>5. {"return"} \cup (IF ParameterObservations(fn) # {} THEN {"parameter"} ELSE {}) = {"return", "parameter"}
    BY <1>2
  <2> QED
    BY <2>2, <2>3, <2>4, <2>5 DEF SortedObject, x
<1> QED
  BY <1>1, <1>2

(* Sorted objects are equal when their parts are.                          *)
LEMMA SameSorted ==
  ASSUME NEW fn, NEW r1, NEW p1, NEW r2, NEW p2
  PROVE  /\ SortedObject(fn, r1, p1) # Err
         /\ SortedObject(fn, r1, p1) = SortedObject(fn, r2, p2)
            <=> /\ CanonicalSorted(fn.ret, r1) = CanonicalSorted(fn.ret, r2)
                /\ ParameterObservations(fn) # {} => p1 = p2
<1>1. CASE ParameterObservations(fn) = {}
  BY <1>1 DEF SortedObject, Err
<1>2. CASE ParameterObservations(fn) # {}
  BY <1>2 DEF SortedObject, Err
<1> QED
  BY <1>1, <1>2

(* Where the order does not count.                                         *)
LEMMA UnorderedResult ==
  ASSUME NEW j, NEW c, NEW ret, NEW post, FunctionRun(j, c, ret, post), j.function.obs # <<>>,
         j.function.order = "unordered"
  PROVE  LET text == generateObservations(j.language, j.function, ret, post)
         IN  text # Err /\ functionOutputsEqual(j, text, testCaseExpectedOutput(j, c))
             <=> CorrectFunction(j.function, c.expected, ret, post)
<1> DEFINE fn == j.function
           text == generateObservations(j.language, fn, ret, post)
           obs == ParameterObservations(fn) # {}
           pp == [fields |-> PrintedParameters(j, ret, post)]
           ep == [fields |-> ExpectedParameters(j, c)]
           pf == [fields |-> postconditionFields(fn, ret, post)]
           r == ReturnText(j, ret)
           want == Canonical(fn.ret, ExpectedReturn(fn, c.expected))
           printed == ObservedObject(fn, r, pp, pf)
           expected == ObservedObject(fn, want, ep, TruePostconditions(fn))
           a == CanonicalSorted(fn.ret, r)
           x == CanonicalSorted(fn.ret, want)
<1>1. text = (IF AnyErr(PrintedParameters(j, ret, post)) THEN Err ELSE printed) /\ testCaseExpectedOutput(j, c) = expected
  BY ObservedFields
<1>2. printed # Err /\ expected # Err
  BY NotErr DEF ObservedObject
<1>3. fn.posts = <<>> /\ returnObserved(fn) /\ fn # NoSpec
  BY FunctionMetadata, OrderOrIdentity DEF FunctionRun
<1> HIDE DEF text, pp, ep, pf, r, want
<1>4. /\ canonicalizeUnorderedFunctionOutput(fn, printed) = IF a = Err THEN Err ELSE SortedObject(fn, r, pp)
      /\ canonicalizeUnorderedFunctionOutput(fn, expected) = IF x = Err THEN Err ELSE SortedObject(fn, want, ep)
  BY <1>3, SortsTheReturn
<1>5. /\ SortedObject(fn, r, pp) # Err /\ SortedObject(fn, want, ep) # Err
      /\ SortedObject(fn, r, pp) = SortedObject(fn, want, ep) <=> a = x /\ (obs => pp = ep)
  BY SameSorted
<1>6. a # Err /\ x # Err /\ a = x <=> CorrectReturn(fn, c.expected, ret)
  BY <1>3, ReturnIsComparedUnordered DEF r, want
<1> HIDE DEF printed, expected, a, x
<1>7. functionOutputsEqual(j, printed, expected) <=> CorrectReturn(fn, c.expected, ret) /\ (obs => pp = ep)
  <2>1. functionOutputsEqual(j, printed, expected)
          <=> /\ canonicalizeUnorderedFunctionOutput(fn, printed) # Err
              /\ canonicalizeUnorderedFunctionOutput(fn, expected) # Err
              /\ canonicalizeUnorderedFunctionOutput(fn, printed) = canonicalizeUnorderedFunctionOutput(fn, expected)
    BY <1>3 DEF functionOutputsEqual
  <2> QED
    BY <2>1, <1>4, <1>5, <1>6
<1>8. /\ pp = ep <=> \A i \in ParameterObservations(fn) : CorrectParameter(fn, c.expected, ret, post, fn.obs[i])
      /\ pp = ep => ~AnyErr(PrintedParameters(j, ret, post))
  BY ParametersAreCompared DEF pp, ep
<1>9. ~obs => ~AnyErr(PrintedParameters(j, ret, post))
  BY DEF AnyErr, PrintedParameters
<1>10. CorrectFunction(fn, c.expected, ret, post) <=> CorrectReturn(fn, c.expected, ret) /\ (obs => pp = ep)
  BY <1>3, <1>8 DEF CorrectFunction
<1>11. CASE AnyErr(PrintedParameters(j, ret, post))
  BY <1>1, <1>8, <1>9, <1>10, <1>11 DEF text
<1>12. CASE ~AnyErr(PrintedParameters(j, ret, post))
  <2>1. text = printed
    BY <1>1, <1>12
  <2> QED
    BY <1>1, <1>2, <1>7, <1>10, <2>1 DEF text
<1> QED
  BY <1>11, <1>12

(* The verdict on a function's run is the one it deserves.                 *)
LEMMA FunctionVerdict ==
  ASSUME NEW j, NEW c, NEW ret, NEW post, FunctionRun(j, c, ret, post)
  PROVE  LET text == generateObservations(j.language, j.function, ret, post)
         IN  text # Err /\ functionOutputsEqual(j, text, testCaseExpectedOutput(j, c))
             <=> CorrectFunction(j.function, c.expected, ret, post)
BY BareResult, OrderedResult, UnorderedResult

(* The same for a class: item by item.                                     *)
LEMMA ClassVerdict ==
  ASSUME NEW j \in Jobs, ValidateJob(j), j.class # NoSpec, NEW c \in ToSet(j.cases), NEW results,
         \A i \in DOMAIN c.calls :
           LET t == Operation(j.class, c.calls[i].name).ret
           IN  results[i] \in IF IsVoid(t) THEN {Null} ELSE {Literal(t, a) : a \in Answers(t)},
         RepresentableClass(j, c, Arr(results))
  PROVE  LET text == generateClassCase(j.language, j.class, c, results)
         IN  text # Err /\ functionOutputsEqual(j, text, testCaseExpectedOutput(j, c))
             <=> CorrectClass(j.class, c, Arr(results))
<1> DEFINE cls == j.class
           t(i) == Operation(cls, c.calls[i].name).ret
           x(i) == IF IsVoid(t(i)) THEN Null ELSE Serialize(j.language, t(i), results[i])
           y(i) == IF IsVoid(t(i)) THEN Null ELSE Canonical(t(i), arrayValues(c.expected)[i])
           printed == [i \in DOMAIN c.calls |-> x(i)]
           wanted == [i \in DOMAIN c.calls |-> y(i)]
           text == generateClassCase(j.language, cls, c, results)
<1>1. validClassCase(cls, c) /\ j.function = NoSpec /\ ClassEncoders(j, c)
  BY ValidClass, OneMode, EncodersAssumption DEF validateCppClass, validatePythonClass
<1>2. arrayValues(c.expected) = c.expected.arr
  <2>1. c.calls # <<>> /\ Len(arrayValues(c.expected)) = Len(c.calls) /\ c.calls \in Seq(ToSet(c.calls))
    BY <1>1, JobsAssumption DEF validClassCase
  <2>2. Len(c.calls) # 0
    BY <2>1
  <2> QED
    BY <2>1, <2>2 DEF arrayValues
<1>3. \A i \in DOMAIN c.calls : y(i) # Err
  BY <1>1, NotErr DEF validClassCase, ValidateJSON
<1>4. \A i \in DOMAIN c.calls : x(i) = y(i) <=>
        (~IsVoid(t(i)) => EqualValues(t(i), results[i], Literal(t(i), c.expected.arr[i])))
  <2> SUFFICES ASSUME NEW i \in DOMAIN c.calls
      PROVE x(i) = y(i) <=>
        (~IsVoid(t(i)) => EqualValues(t(i), results[i], Literal(t(i), c.expected.arr[i])))
    OBVIOUS
  <2>1. CASE IsVoid(t(i))
    BY <2>1
  <2>2. CASE ~IsVoid(t(i))
    <3>1. PICK a \in Answers(t(i)) : results[i] = Literal(t(i), a)
      BY <2>2
    <3>2. Plain(j.language, t(i), results[i], c.expected.arr[i])
      BY <2>2 DEF RepresentableClass, Arr
    <3>3. Encodes(j.language, t(i), results[i], c.expected.arr[i])
      BY <1>1, <2>2, <3>1, <3>2 DEF ClassEncoders
    <3> QED
      BY <1>2, <2>2, <3>3 DEF Encodes
  <2> QED
    BY <2>1, <2>2
<1>5. text = IF Err \in ToSet(printed) THEN Err ELSE Arr(printed)
  BY DEF generateClassCase
<1>6. testCaseExpectedOutput(j, c) = Arr(wanted)
  <2>1. Err \notin ToSet(wanted)
    BY <1>3 DEF ToSet
  <2>2. canonicalClassExpectedOutput(cls, c) = Arr(wanted)
    BY <1>1, <2>1 DEF canonicalClassExpectedOutput, validClassCase
  <2> QED
    BY <2>2, Zenon DEF testCaseExpectedOutput
<1>7. CorrectClass(cls, c, Arr(results)) <=> \A i \in DOMAIN c.calls : x(i) = y(i)
  BY <1>4 DEF CorrectClass, Arr
<1>8. functionOutputsEqual(j, text, Arr(wanted)) <=> text = Arr(wanted)
  BY <1>1 DEF functionOutputsEqual
<1> HIDE DEF x, y, t, text
<1>9. Err \in ToSet(printed) <=> \E i \in DOMAIN c.calls : x(i) = Err
  BY DEF ToSet
<1>10. Arr(printed) = Arr(wanted) <=> \A i \in DOMAIN c.calls : x(i) = y(i)
  BY DEF Arr
<1> HIDE DEF printed, wanted
<1>11. text # Err /\ text = Arr(wanted) <=> \A i \in DOMAIN c.calls : x(i) = y(i)
  BY <1>3, <1>5, <1>9, <1>10, NotErr
<1> QED
  BY <1>6, <1>7, <1>8, <1>11 DEF text

----------------------------------------------------------------------------
(* The inductive invariant.                                                *)

(* A case of the job is one of its cases.                                  *)
LEMMA CaseOfJob ==
  ASSUME NEW j \in Jobs, NEW i \in 1 .. Len(j.cases)
  PROVE  j.cases[i] \in ToSet(j.cases) /\ Len(j.cases) \in Nat
<1>1. DOMAIN j.cases = 1 .. Len(j.cases) /\ Len(j.cases) \in Nat
  BY JobsAssumption
<1> QED
  BY <1>1 DEF ToSet

(* What a verdict makes of a run whose expected text is no error.          *)
LEMMA VerdictCases ==
  ASSUME RunningInv, pc = "running", NEW text, NEW expected, expected # Err,
         pc' = Verdict(text, expected), case' = case + 1, UNCHANGED job
  PROVE  /\ pc' \in {"runtime_error", "wrong_answer", "accepted", "running"}
         /\ RunningInv'
<1>1. case \in 1 .. Len(job.cases) /\ Len(job.cases) \in Nat /\ ValidateJob(job) /\ job \in Jobs
  BY CaseOfJob DEF RunningInv
<1>2. pc' \in {"runtime_error", "wrong_answer", "accepted", "running"}
  BY DEF Verdict
<1>3. pc' = "running" => case # Len(job.cases)
  BY DEF Verdict
<1> QED
  BY <1>1, <1>2, <1>3 DEF RunningInv

(* What a run leaves in ran.                                               *)
LEMMA RunKeeps ==
  ASSUME IndInv, pc = "running", UNCHANGED job,
         NEW args, NEW ret, NEW post, NEW text,
         ran' = [of |-> case, args |-> args, ret |-> ret, post |-> post, text |-> text],
         args = IF job.class # NoSpec THEN job.cases[case].ctorArgs ELSE job.cases[case].args
  PROVE  RanInv' /\ CaseRunsItsOwnArguments'
BY DEF IndInv, RunningInv, RanInv, CaseRunsItsOwnArguments

(* A run is accepted when it prints a text equal to the expected one.      *)
LEMMA VerdictAccepts ==
  ASSUME NEW text, NEW expected, expected # Err
  PROVE  Verdict(text, expected) \in {"running", "accepted"} <=> text # Err /\ functionOutputsEqual(job, text, expected)
BY DEF Verdict

(* The invariant holds at first.                                           *)
LEMMA InitIndInv == Init => IndInv
BY DEF Init, IndInv, RunningInv, RanInv, AcceptedIsJudged, CaseRunsItsOwnArguments, VerdictIsDeserved

(* A driver that cannot build its arguments ends the job.                  *)
LEMMA NoRunKeeps ==
  ASSUME IndInv, pc = "running", pc' = "runtime_error", ran' = NoRun, case' = case + 1, UNCHANGED job
  PROVE  IndInv'
BY DEF IndInv, RunningInv, RanInv, AcceptedIsJudged, CaseRunsItsOwnArguments, VerdictIsDeserved

(* A run of a function case keeps the invariant.                           *)
LEMMA FunctionCaseKeeps == IndInv /\ RunFunctionCase => IndInv'
<1> SUFFICES ASSUME IndInv, RunFunctionCase PROVE IndInv'
  OBVIOUS
<1> DEFINE c    == job.cases[case]
           args == driverArgs(job, c)
           outcomes == {p \in [DOMAIN args -> UNION {Leaves(job.function, args, k) : k \in DOMAIN args}] :
                          \A k \in DOMAIN args : p[k] \in Leaves(job.function, args, k)}
           printed(ret, post) == generateObservations(job.language, job.function, ret, post)
<1>1. /\ pc = "running" /\ job.function # NoSpec /\ job.class = NoSpec /\ ValidateJob(job) /\ job \in Jobs
      /\ case \in 1 .. Len(job.cases) /\ UNCHANGED job /\ case' = case + 1
  BY OneMode DEF RunFunctionCase, IndInv, RunningInv
<1>2. c \in ToSet(job.cases) /\ chosenCase(job, job.cases[case].id) = c /\ testCaseExpectedOutput(job, c) # Err
  BY <1>1, OwnCase, CaseOfJob, FunctionExpectedReadable
<1>3. CASE Err \in ToSet(args)
  <2>1. pc' = "runtime_error" /\ ran' = NoRun
    BY <1>2, <1>3 DEF RunFunctionCase
  <2> QED
    BY <1>1, <2>1, NoRunKeeps
<1>4. CASE Err \notin ToSet(args)
  <2>1. \E ret \in Returns(job.function, args), post \in outcomes :
          /\ ran' = [of |-> case, args |-> c.args, ret |-> ret, post |-> post, text |-> printed(ret, post)]
          /\ pc' = Verdict(printed(ret, post), testCaseExpectedOutput(job, c))
    BY <1>2, <1>4, Zenon DEF RunFunctionCase
  <2>2. PICK ret \in Returns(job.function, args), post \in outcomes :
          /\ ran' = [of |-> case, args |-> c.args, ret |-> ret, post |-> post, text |-> printed(ret, post)]
          /\ pc' = Verdict(printed(ret, post), testCaseExpectedOutput(job, c))
    BY <2>1
  <2>3. RunningInv' /\ AcceptedIsJudged'
    BY <1>1, <1>2, <2>2, VerdictCases DEF IndInv, AcceptedIsJudged
  <2>4. RanInv' /\ CaseRunsItsOwnArguments'
    BY <1>1, <2>2, RunKeeps
  <2>5. ASSUME Representable'
        PROVE  pc' \in {"running", "accepted"} <=> Correct'
    <3>1. /\ RepresentableFunction(job, c, ret, post)
          /\ Correct' <=> CorrectFunction(job.function, c.expected, ret, post)
      BY <1>1, <2>2, <2>5 DEF Representable, Correct
    <3>2. DOMAIN args = DOMAIN job.function.params
      BY <1>1, <1>2, FunctionMetadata DEF driverArgs
    <3>3. FunctionRun(job, c, ret, post)
      BY <1>1, <1>2, <1>4, <2>2, <3>1, <3>2 DEF FunctionRun
    <3>4. printed(ret, post) # Err /\ functionOutputsEqual(job, printed(ret, post), testCaseExpectedOutput(job, c))
          <=> CorrectFunction(job.function, c.expected, ret, post)
      BY <3>3, FunctionVerdict
    <3> QED
      BY <1>2, <2>2, <3>1, <3>4, VerdictAccepts
  <2> QED
    BY <2>3, <2>4, <2>5 DEF IndInv, VerdictIsDeserved
<1> QED
  BY <1>3, <1>4

(* So does a run of a class case.                                          *)
LEMMA ClassCaseKeeps == IndInv /\ RunClassCase => IndInv'
<1> SUFFICES ASSUME IndInv, RunClassCase PROVE IndInv'
  OBVIOUS
<1> DEFINE c   == chosenCase(job, job.cases[case].id)
           ops == [i \in DOMAIN c.calls |-> Operation(job.class, c.calls[i].name)]
           values(i) == IF IsVoid(ops[i].ret) THEN {Null}
                        ELSE {Literal(ops[i].ret, a) : a \in Answers(ops[i].ret)}
           outcomes == {r \in [DOMAIN ops -> UNION {values(i) : i \in DOMAIN ops}] :
                          \A i \in DOMAIN ops : r[i] \in values(i)}
           printed(results) == generateClassCase(job.language, job.class, c, results)
<1>1. /\ pc = "running" /\ job.class # NoSpec /\ job.function = NoSpec /\ ValidateJob(job) /\ job \in Jobs
      /\ case \in 1 .. Len(job.cases) /\ UNCHANGED job /\ case' = case + 1
  BY OneMode DEF RunClassCase, IndInv, RunningInv
<1>2. c \in ToSet(job.cases) /\ c = job.cases[case] /\ testCaseExpectedOutput(job, c) # Err
  BY <1>1, OwnCase, CaseOfJob, ClassExpectedReadable
<1>3. CASE classArgumentRaises(job.language, job.class, c)
  <2>1. pc' = "runtime_error" /\ ran' = NoRun
    BY <1>2, <1>3 DEF RunClassCase
  <2> QED
    BY <1>1, <2>1, NoRunKeeps
<1>4. CASE ~classArgumentRaises(job.language, job.class, c)
  <2>1. \E results \in outcomes :
          /\ ran' = [of |-> case, args |-> c.ctorArgs, ret |-> Arr(results), post |-> <<>>, text |-> printed(results)]
          /\ pc' = Verdict(printed(results), testCaseExpectedOutput(job, job.cases[case]))
    BY <1>4, Zenon DEF RunClassCase
  <2>2. PICK results \in outcomes :
          /\ ran' = [of |-> case, args |-> c.ctorArgs, ret |-> Arr(results), post |-> <<>>, text |-> printed(results)]
          /\ pc' = Verdict(printed(results), testCaseExpectedOutput(job, c))
    <3> HIDE DEF c
    <3> QED
      BY <1>2, <2>1
  <2> HIDE DEF c
  <2>3. RunningInv' /\ AcceptedIsJudged'
    BY <1>1, <1>2, <2>2, VerdictCases DEF IndInv, AcceptedIsJudged
  <2>4. RanInv' /\ CaseRunsItsOwnArguments'
    BY <1>1, <1>2, <2>2, RunKeeps
  <2>5. ASSUME Representable'
        PROVE  pc' \in {"running", "accepted"} <=> Correct'
    <3>1. /\ RepresentableClass(job, c, Arr(results))
          /\ Correct' <=> CorrectClass(job.class, c, Arr(results))
      BY <1>1, <1>2, <2>2, <2>5 DEF Representable, Correct
    <3>2. \A i \in DOMAIN c.calls :
            LET t == Operation(job.class, c.calls[i].name).ret
            IN  results[i] \in IF IsVoid(t) THEN {Null} ELSE {Literal(t, a) : a \in Answers(t)}
      BY <2>2
    <3>3. printed(results) # Err /\ functionOutputsEqual(job, printed(results), testCaseExpectedOutput(job, c))
          <=> CorrectClass(job.class, c, Arr(results))
      BY <1>1, <1>2, <3>1, <3>2, ClassVerdict
    <3> QED
      BY <1>2, <2>2, <3>1, <3>3, VerdictAccepts
  <2> QED
    BY <2>3, <2>4, <2>5 DEF IndInv, VerdictIsDeserved
<1> QED
  BY <1>3, <1>4

(* And a run in stdin mode.                                                *)
LEMMA StdinCaseKeeps == IndInv /\ RunStdinCase => IndInv'
<1> SUFFICES ASSUME IndInv, RunStdinCase PROVE IndInv'
  OBVIOUS
<1>1. /\ pc = "running" /\ job.function = NoSpec /\ job.class = NoSpec /\ ValidateJob(job) /\ job \in Jobs
      /\ case \in 1 .. Len(job.cases) /\ UNCHANGED job /\ case' = case + 1
  BY DEF RunStdinCase, IndInv, RunningInv
<1>2. job.cases[case].expected # Err
  BY <1>1, CaseOfJob, JobsAssumption
<1>3. PICK text \in Answers(Scalar("string")) :
      /\ ran' = [of |-> case, args |-> job.cases[case].args, ret |-> text, post |-> <<>>, text |-> text]
      /\ pc' = Verdict(text, job.cases[case].expected)
  BY DEF RunStdinCase
<1>4. RunningInv' /\ AcceptedIsJudged'
  BY <1>1, <1>2, <1>3, VerdictCases DEF IndInv, AcceptedIsJudged
<1>5. RanInv' /\ CaseRunsItsOwnArguments'
  BY <1>1, <1>3, RunKeeps
<1>6. pc' \in {"running", "accepted"} <=> Correct'
  <2>1. Correct' <=> text = job.cases[case].expected
    BY <1>1, <1>3 DEF Correct
  <2>2. text # Err
    BY <1>3, AnswersAssumption
  <2> QED
    BY <1>1, <1>2, <1>3, <2>1, <2>2, VerdictAccepts DEF functionOutputsEqual
<1> QED
  BY <1>4, <1>5, <1>6 DEF IndInv, VerdictIsDeserved

(* Every step keeps the invariant.                                         *)
LEMMA NextIndInv == IndInv /\ [Next]_vars => IndInv'
<1> SUFFICES ASSUME IndInv, [Next]_vars PROVE IndInv'
  OBVIOUS
<1>1. CASE Submit \/ StoredBefore
  BY <1>1 DEF Submit, StoredBefore, IndInv, RunningInv, RanInv, AcceptedIsJudged, CaseRunsItsOwnArguments, VerdictIsDeserved
<1>2. CASE ProcessSubmission
  <2>1. pc' # "infrastructure_error" /\ (pc' = "running" => ValidateJob(job)) /\ pc' \notin {"request", "queued"}
    BY <1>2, GeneratorAccepts DEF ProcessSubmission
  <2>2. ValidateJob(job) => 1 \in 1 .. Len(job.cases)
    BY DEF ValidateJob
  <2>3. pc = "queued" /\ ran = NoRun /\ ran' = NoRun /\ case = 1 /\ case' = 1 /\ job' = job /\ job \in Jobs
    BY <1>2 DEF ProcessSubmission, IndInv, RunningInv
  <2> QED
    BY <2>1, <2>2, <2>3 DEF IndInv, RunningInv, RanInv, AcceptedIsJudged, CaseRunsItsOwnArguments, VerdictIsDeserved
<1>3. CASE UNCHANGED vars
  BY <1>3 DEF vars, IndInv, RunningInv, RanInv, AcceptedIsJudged, CaseRunsItsOwnArguments, VerdictIsDeserved,
              Representable, RepresentableFunction, RepresentableClass, Correct
<1> QED
  BY <1>1, <1>2, <1>3, FunctionCaseKeeps, ClassCaseKeeps, StdinCaseKeeps DEF Next

----------------------------------------------------------------------------
(* The invariant holds in every reachable state.                           *)
THEOREM Invariance == Spec => []IndInv
BY InitIndInv, NextIndInv, PTL DEF Spec

(* A job that ValidateJob let through never ends as an infrastructure      *)
(* error of the generator or of canonicalizing the expected value.         *)
THEOREM ValidJobsAreJudged == Spec => []AcceptedIsJudged
<1>1. IndInv => AcceptedIsJudged
  BY DEF IndInv
<1> QED
  BY Invariance, <1>1, PTL

(* The process given a case's id runs with the arguments of that case.     *)
THEOREM OwnArguments == Spec => []CaseRunsItsOwnArguments
<1>1. IndInv => CaseRunsItsOwnArguments
  BY DEF IndInv
<1> QED
  BY Invariance, <1>1, PTL

(* testcases.go accepts a run exactly when its result, the observed        *)
(* parameters and the identities are the expected ones, wherever the       *)
(* encoders agree on the single values (EncodersAssumption).               *)
THEOREM DeservedVerdicts == Spec => []VerdictIsDeserved
<1>1. IndInv => VerdictIsDeserved
  BY DEF IndInv
<1> QED
  BY Invariance, <1>1, PTL

(* What the Python backend accepts, the C++ backend accepts as well.       *)
THEOREM SharedContract == Spec => []ContractIsShared
<1>1. IndInv => ContractIsShared
  BY PythonIsCpp DEF IndInv, RunningInv, ContractIsShared
<1> QED
  BY Invariance, <1>1, PTL

=============================================================================
