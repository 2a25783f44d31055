------------------------------ MODULE MCChecks ------------------------------
(* The algorithms of the program against what they promise, over bounded     *)
(* inputs: an initial state is an input, and nothing moves.                  *)
EXTENDS Documents, Agreements

Load == INSTANCE Loading WITH MaxNodes <- 12, MaxDepth <- 4
Draw == INSTANCE Drawing

vars == <<area, input>>

(* What Configuration descends into values with.                            *)
OptionFaultsOf(x) == Load!Views!OptionFaults(x)
SameOptionAs(x, y) == Load!Views!SameOption(x, y)
ViewFaultsOf(x) == Load!Views!ViewFaults(x)
FilledTemplate(x) == Load!Views!Filled(x)

Init ==
  \/ area = "scene" /\ input \in SceneInputs
  \/ area = "publication" /\ input \in PublicationInputs
  \/ area = "value" /\ input \in ValueInputs
  \/ area = "call" /\ input \in CallInputs
  \/ area = "range" /\ input \in RangeInputs
  \/ area = "usage" /\ input \in UsageInputs
  \/ area = "symbols" /\ input \in SymbolInputs
  \/ area = "bytes" /\ input \in ByteInputs
  \/ area = "template" /\ input \in Load!TemplateInputs
  \/ /\ area = "config"
     /\ \E e \in Load!Edits :
          input = [document |-> Load!Document(Load!Edited(e)), roots |-> Load!Roots(Load!Edited(e))]
  \/ /\ area = "reload"
     /\ \E r \in Load!Reloads :
          /\ Load!Loads(r.from) /\ Load!Loads(r.to)
          /\ input = [from |-> Load!Loaded(r.from), to |-> Load!Loaded(r.to)]
  \/ area = "layout" /\ input \in Draw!LayoutInputs
Next == UNCHANGED vars
Spec == Init /\ [][Next]_vars

(* What the Lua host lets through the core takes: of a publication the      *)
(* host checked (validate_publication), the core's parser finds only the    *)
(* faults the host does not look for, those of a whole scene; and what a    *)
(* constructor of the module API was given is what is published, through    *)
(* the Lua tables that hold it (push_json_to_lua and back), children given  *)
(* by position or by name; and a dismissal or a log line the host lets      *)
(* through the core takes.                                                  *)
HostAgrees ==
  /\ area = "scene" => HostAndCoreAgree(Publication([compact |-> SceneOf(input)]))
  /\ area = "publication" => HostAndCoreAgree(PublicationOf(input))
ScenesSurvive ==
  /\ area = "value" => Survives(ValueOf(input))
  /\ area = "scene" /\ input.place = "root" => ContainersAgree(SceneOf(input))
CallsAreTaken == area = "call" => CallsAgree(input)
RecordsAgree == HostAgrees /\ ScenesSurvive /\ CallsAreTaken

(* instantiate_template gives the scene the template stands for: a name     *)
(* means the innermost repetition that binds it, and a repetition, nested   *)
(* or not, as many copies as its array has items.  What it accepts is a     *)
(* scene the core's parser would take from a module.                        *)
TemplatesMean == area = "template" => Load!InstantiatedAsMeant(input)

(* A scene that is laid out (layout_scene) is inside its view, no two of    *)
(* its parts cover each other, and a scene whose least size fits is not     *)
(* refused.                                                                 *)
ScenesAreLaidOut == area = "layout" => Draw!LaidOut(input)
=============================================================================
