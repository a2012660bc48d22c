----------------------------- MODULE SourceFile -----------------------------
(***************************************************************************)
(* Compiler::visitSourceFile on one source file: the passes of the         *)
(* compiler, one after the other.  Each has its own idea of scopes, slots  *)
(* and types, and the properties say where they agree.                     *)
(***************************************************************************)
EXTENDS Compiler, Bytecode, FiniteSets

LOCAL INSTANCE SequencesExt

CONSTANT Sources  \* sequences of declarations

VARIABLES
  source,     \* the declarations of the file
  stage,      \* how far the compiler is: see Stages
  annotator,  \* the annotator; it has the nodes with their types
  program     \* the function table

vars == <<source, stage, annotator, program>>

(* "rejected": the compiler threw an exception, or crashed.                 *)
Stages == {"parsed", "analyzed", "annotated", "generated", "rejected"}

Init ==
  /\ source \in Sources
  /\ stage = "parsed"
  /\ annotator = NewAnnotator({})
  /\ program = Rejected

AnalyzeVariables ==
  /\ stage = "parsed"
  /\ stage' = IF OnlyFunctions(source) THEN "analyzed" ELSE "rejected"
  /\ UNCHANGED <<source, annotator, program>>

AnnotateTypes ==
  /\ stage = "analyzed"
  /\ annotator' = AnnotateSourceFile(source)
  /\ stage' = IF annotator'.accepted THEN "annotated" ELSE "rejected"
  /\ UNCHANGED <<source, program>>

GenerateCode ==
  /\ stage = "annotated"
  /\ program' = Finish(Compile(annotator.nodes))
  /\ stage' = IF program'.accepted THEN "generated" ELSE "rejected"
  /\ UNCHANGED <<source, annotator>>

Next == AnalyzeVariables \/ AnnotateTypes \/ GenerateCode

Spec == Init /\ [][Next]_vars

-----------------------------------------------------------------------------
(* The scopes of the source, by one walk from the top to the bottom: known  *)
(* has the names in scope, own those declared by the function, used the     *)
(* variables it or its literals have mentioned so far.  The scopes are those*)
(* of the compiler, not of Go: a function is one scope, however many blocks *)
(* it has, and a variable of a function type declares the parameters of the *)
(* type, too, if these have names.                                          *)
NamesOf(parameters) == {parameters[i].name : i \in DOMAIN parameters} \ {""}
Distinct(parameters) ==
  \A i, j \in DOMAIN parameters : parameters[i].name = parameters[j].name => i = j \/ parameters[i].name = ""

Global == Declared(source) \cup DOMAIN NativeIndices

Mention(w, name) ==
  [w EXCEPT !.used = @ \cup ({name} \ Global), !.scoped = @ /\ name \in w.known]
Introduce(w, parameters) ==
  [w EXCEPT !.known = @ \cup NamesOf(parameters), !.own = @ \cup NamesOf(parameters),
            !.once = @ /\ Distinct(parameters) /\ NamesOf(parameters) \cap (w.own \cup w.used) = {}]
EnterScope(w, parameters) == Introduce([w EXCEPT !.own = {}, !.used = {}], parameters)
LeaveScope(w, inner) ==
  [w EXCEPT !.used = @ \cup (inner.used \ inner.own), !.scoped = inner.scoped, !.once = inner.once]

RECURSIVE Walk(_, _)
Walk(w, n) ==
  LET here == CASE n.kind \in {"name", "assign", "send"} -> Mention(w, n.tag)
                [] n.kind = "var" -> Introduce(w, <<n.tag>> \o ParametersIn(n.tag.type))
                [] n.kind = "function" -> EnterScope(w, n.tag.parameters)
                [] OTHER -> w
      after == Reduce(Walk, here, Children(n))
  IN  IF n.kind = "function" THEN LeaveScope(w, after) ELSE after

Outside == [known |-> Global, own |-> {}, used |-> {}, scoped |-> TRUE, once |-> TRUE]

(* Every name is in scope where it is used; no function declares a name     *)
(* twice, or one it has used before.                                        *)
NamesInScope == Reduce(Walk, Outside, source).scoped
DeclaredOnce == Reduce(Walk, Outside, source).once

-----------------------------------------------------------------------------
Table == Scan(annotator.nodes)
Frame(f) == FrameOf(f, Declared(source))
Compiled(f) == program.functions[IndexOfFunction(Table, f.tag.id) + 1]
Elements(sequence) == {sequence[i] : i \in DOMAIN sequence}

(* Every variable has its slot in the frame of its function exactly if every*)
(* function declares its names once: then no code writes past its own frame *)
(* into that of the function it calls.  Legal Go that does not keep to this *)
(* is compiled all the same: a name declared again in a block, a variable   *)
(* declared after another one of its name was used, and two variables of    *)
(* function types whose parameters have the same name.                      *)
SlotsInFrame ==
  stage = "generated" =>
    /\ DeclaredOnce <=>
         \A f \in Elements(Table) : \A name \in DOMAIN Frame(f).category :
           Slot(Frame(f), name) < Compiled(f).varc
    /\ DeclaredOnce => SlotsFit(program)

(* A declared function is called without captures: it has none exactly if   *)
(* all names are known where they are used.  The annotator looks up the     *)
(* names in expressions only, and in scopes of its own.                     *)
CapturesFollowScopes ==
  stage = "generated" =>
    (NamesInScope <=> \A i \in DOMAIN annotator.nodes : Compiled(annotator.nodes[i]).capc = 0)

(* What a literal captures is the address of a cell, never the value of a   *)
(* variable, and its i-th capture is the variable it has in slot i - 1.     *)
RECURSIVE LiteralsIn(_)
LiteralsIn(nodes) ==
  Reduce(LAMBDA found, n :
      found \o IF n.kind = "function" THEN <<n>> ELSE LiteralsIn(Children(n)),
    <<>>, nodes)

CapturesAreCells ==
  (stage = "generated" /\ DeclaredOnce) =>
    \A f \in Elements(Table) : \A literal \in Elements(LiteralsIn(Children(f))) :
      LET captures == Frame(literal).captures
      IN  \A i \in DOMAIN captures :
            /\ Frame(f).category[captures[i]] # "bound"
            /\ Slot(Frame(literal), captures[i]) = i - 1

(* Types are found by their names: two types with one name would be one.    *)
RECURSIVE TypesIn(_)
TypesIn(nodes) ==
  Reduce(LAMBDA found, n : found \cup {n.type} \cup TypesIn(Children(n)), {}, nodes) \ {NoEntry}

NamesTellTypesApart ==
  Cardinality({TypeName(type) : type \in TypesIn(annotator.nodes)}) = Cardinality(TypesIn(annotator.nodes))

(* What Go calls a terminating statement: control does not leave it at its  *)
(* end.  A function that ends in one never runs off the end of its code,    *)
(* which would end its whole thread.                                        *)
RECURSIVE Terminating(_)
Terminating(statements) ==
  statements # <<>> /\
    LET last == Last(statements)
    IN  \/ last.kind \in {"return", "goto"}
        \/ last.kind = "for" /\ last.parts[1] = <<>>
        \/ last.kind = "block" /\ Terminating(last.parts[1])
        \/ last.kind = "if" /\ Len(last.parts) = 3 /\ \A i \in {2, 3} : Terminating(last.parts[i])

Targets(code, i) ==
  CASE code[i + 1].opcode = "ret" -> {}
    [] code[i + 1].opcode = "goto" -> {code[i + 1].index}
    [] code[i + 1].opcode \in {"if_t", "if_f"} -> {i + 1, code[i + 1].index}
    [] OTHER -> {i + 1}

Reached(code) ==
  LET Grow(places, c) == places \cup UNION {Targets(code, i) : i \in places \ {Len(code)}}
  IN  Reduce(Grow, {0}, code)

TerminatedFunctionsReturn ==
  stage = "generated" =>
    \A f \in Elements(Table) :
      Terminating(f.parts[1]) => Reached(Compiled(f).code) \subseteq 0 .. (Len(Compiled(f).code) - 1)

(* arg_types is one member for all signatures: the arguments in front of a  *)
(* function type in a signature are lost, and those inside it are left over *)
(* (lambda.goat: appN takes an int, its type says func(int) int and int).   *)
(* Result types survive, however deep signatures nest: a call has the type  *)
(* that its callee was declared to return.                                  *)
RECURSIVE AsWritten(_)
AsWritten(type) ==
  CASE type.kind = "func" -> FunctionType(<<>>, WrapCallable(AsWritten(type.result)))
    [] type.kind = "chan" -> ChannelType(AsWritten(type.element))
    [] type = NoResult \/ type.kind \in {"slice", "pointer"} -> Void
    [] OTHER -> type

RECURSIVE WithoutArguments(_)
WithoutArguments(type) ==
  CASE type.kind = "function" -> FunctionType(<<>>, WithoutArguments(type.return_type))
    [] type.kind = "callable" -> CallableType(WithoutArguments(type.function_type))
    [] type.kind = "channel" -> ChannelType(WithoutArguments(type.element_type))
    [] OTHER -> type

ResultsAsDeclared ==
  stage \in {"annotated", "generated"} =>
    \A f \in Elements(Table) :
      WithoutArguments(f.type.function_type) = AsWritten(FuncType(f.tag.parameters, f.tag.result))

(* The nodes that are evaluated when a function runs: literals have their   *)
(* own, and a callee that is a function by its name is not evaluated.       *)
RECURSIVE Evaluated(_)
Evaluated(nodes) ==
  Reduce(LAMBDA found, n :
      found \cup {n} \cup
        CASE n.kind = "function" \/ (n.kind = "unary" /\ n.tag = "&") -> {}
          [] n.kind = "call" /\ CallsAny(n, Global) -> Evaluated(n.parts[2])
          [] OTHER -> Evaluated(Children(n)),
    {}, nodes)
Nodes(f, kinds) == {n \in Evaluated(Children(f)) : n.kind \in kinds}

(* A name in a function that means no variable of its own or around it.     *)
MeansGlobal(f, name) == name \in Global /\ ~ Known(Frame(f), name)
Celled(f, name) == Frame(f).category[name] # "bound"

(* What the generator does not translate although the annotator accepts it: *)
(* a goto to nowhere, a return without value, a statement &x, a function    *)
(* that is a value in the annotator and has no index, a variable that is    *)
(* one in the annotator only, a send or an assignment to a function, and a  *)
(* cell of a type that is nullptr, for a variable or a parameter.           *)
LabelsExist ==
  \A f \in Elements(Table) :
    {n.tag : n \in Nodes(f, {"goto"})} \subseteq {n.tag : n \in Nodes(f, {"label"})}

Unsupported ==
  \E f \in Elements(Table) :
    \/ \E n \in Nodes(f, {"return"}) : n.parts[1] = <<>>
    \/ \E n \in Nodes(f, {"expression"}) : n.parts[1][1].kind = "unary" /\ n.parts[1][1].tag = "&"
    \/ \E n \in Nodes(f, {"name"}) : n.type.kind = "function" /\ n.tag \notin Declared(source)
    \/ \E n \in Nodes(f, {"name"}) : n.type.kind # "function" /\ MeansGlobal(f, n.tag)
    \/ \E n \in Nodes(f, {"assign", "send"}) : MeansGlobal(f, n.tag)
    \/ \E n \in Nodes(f, {"var"}) : n.parts[1] # <<>> /\ n.type = Void /\ Celled(f, n.tag.name)
    \/ \E p \in Elements(f.tag.parameters) :
         p.name # "" /\ p.type.kind \in {"slice", "pointer"} /\ Celled(f, p.name)

Refused == stage = "rejected" /\ annotator.nodes # <<>> /\ annotator.accepted

(* These are all: what else the annotator accepts is translated, so every   *)
(* name has a slot there and every expression a type, and each of these is  *)
(* refused, at the latest by a crash.                                       *)
AnnotatedIsGenerated ==
  (stage = "generated" \/ Refused) => (Refused <=> Unsupported \/ ~ LabelsExist)

(* The expression of a return statement is optional.                        *)
OptionalReturn == Refused => ~ LabelsExist
=============================================================================
