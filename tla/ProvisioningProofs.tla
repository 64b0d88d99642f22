------------------------- MODULE ProvisioningProofs -------------------------
(***************************************************************************)
(* Proofs about Provisioning, for any number of orders, customers, names,  *)
(* rows and workers.                                                       *)
(***************************************************************************)
EXTENDS Provisioning, TLAPS

(* No row appears, goes, or gets another owner. *)
KeepsOwners ==
  \A i \in Row : /\ row'[i] = None <=> row[i] = None
                 /\ row[i] # None => row'[i].user = row[i].user

LEMMA KeptServices ==
  ASSUME IInv, KeepsOwners, UNCHANGED <<svc, buyer>> PROVE ServiceIsTheBuyers'
BY DEF IInv, TypeOK, KeepsOwners, ServiceIsTheBuyers

LEMMA KeptTasks ==
  ASSUME IInv, KeepsOwners, UNCHANGED <<task, buyer>>,
         \A o \in Order : status[o] # "absent" => status'[o] # "absent"
  PROVE  TaskInv'
BY ProvisioningAssumption DEF IInv, TypeOK, Task, KeepsOwners, TaskInv

LEMMA InitIInv == Init => IInv
BY ProvisioningAssumption DEF Init, IInv, TypeOK, ServiceIsTheBuyers, OrderInv, TaskInv, NoneDisabled

LEMMA PlaceOrderIInv ==
  ASSUME IInv, NEW o \in Order, NEW u \in User, NEW n \in Name, PlaceOrder(o, u, n) PROVE IInv'
<1>1. TypeOK'
  BY ProvisioningAssumption
     DEF IInv, TypeOK, OrderInv, TaskInv, ServiceIsTheBuyers, Service, Task, Phase, PlaceOrder,
       orderVars, panelVars, taskVars
<1>2. ServiceIsTheBuyers'
  BY ProvisioningAssumption
     DEF IInv, TypeOK, ServiceIsTheBuyers, TaskInv, OrderInv, PlaceOrder, orderVars, panelVars,
       taskVars
<1>3. OrderInv'
  BY ProvisioningAssumption
     DEF IInv, TypeOK, OrderInv, TaskInv, PlaceOrder, orderVars, panelVars, taskVars
<1>4. TaskInv'
  BY ProvisioningAssumption
     DEF IInv, TypeOK, OrderInv, TaskInv, ServiceIsTheBuyers, Task, PlaceOrder, orderVars,
       panelVars, taskVars
<1>5. NoneDisabled'
  BY ProvisioningAssumption
     DEF IInv, TypeOK, NoneDisabled, ServiceIsTheBuyers, Service, PlaceOrder, orderVars, panelVars,
       taskVars
<1> QED BY <1>1, <1>2, <1>3, <1>4, <1>5 DEF IInv

LEMMA PayIInv ==
  ASSUME IInv, NEW o \in Order, Pay(o) PROVE IInv'
<1>1. TypeOK'
  BY ProvisioningAssumption
     DEF IInv, TypeOK, OrderInv, TaskInv, ServiceIsTheBuyers, Service, Task, Phase, Pay, orderVars,
       panelVars, taskVars
<1>2. ServiceIsTheBuyers'
  BY ProvisioningAssumption
     DEF IInv, TypeOK, ServiceIsTheBuyers, TaskInv, OrderInv, Pay, orderVars, panelVars, taskVars
<1>3. OrderInv'
  BY ProvisioningAssumption
     DEF IInv, TypeOK, OrderInv, TaskInv, Pay, orderVars, panelVars, taskVars
<1>4. TaskInv'
  BY ProvisioningAssumption
     DEF IInv, TypeOK, OrderInv, TaskInv, ServiceIsTheBuyers, Task, Pay, orderVars, panelVars,
       taskVars
<1>5. NoneDisabled'
  BY ProvisioningAssumption
     DEF IInv, TypeOK, NoneDisabled, ServiceIsTheBuyers, Service, Pay, orderVars, panelVars,
       taskVars
<1> QED BY <1>1, <1>2, <1>3, <1>4, <1>5 DEF IInv

LEMMA RetryUnfulfilledIInv ==
  ASSUME IInv, NEW o \in Order, RetryUnfulfilled(o) PROVE IInv'
<1>1. TypeOK'
  BY ProvisioningAssumption
     DEF IInv, TypeOK, OrderInv, TaskInv, ServiceIsTheBuyers, Service, Task, Phase,
       RetryUnfulfilled, orderVars, panelVars, taskVars
<1>2. ServiceIsTheBuyers'
  BY ProvisioningAssumption
     DEF IInv, TypeOK, ServiceIsTheBuyers, TaskInv, OrderInv, RetryUnfulfilled, orderVars,
       panelVars, taskVars
<1>3. OrderInv'
  BY ProvisioningAssumption
     DEF IInv, TypeOK, OrderInv, TaskInv, RetryUnfulfilled, orderVars, panelVars, taskVars
<1>4. TaskInv'
  BY ProvisioningAssumption
     DEF IInv, TypeOK, OrderInv, TaskInv, ServiceIsTheBuyers, Task, RetryUnfulfilled, orderVars,
       panelVars, taskVars
<1>5. NoneDisabled'
  BY ProvisioningAssumption
     DEF IInv, TypeOK, NoneDisabled, ServiceIsTheBuyers, Service, RetryUnfulfilled, orderVars,
       panelVars, taskVars
<1> QED BY <1>1, <1>2, <1>3, <1>4, <1>5 DEF IInv

LEMMA SkipFulfilIInv ==
  ASSUME IInv, NEW o \in Order, SkipFulfil(o) PROVE IInv'
<1>1. TypeOK'
  BY ProvisioningAssumption
     DEF IInv, TypeOK, OrderInv, TaskInv, ServiceIsTheBuyers, Service, Task, Phase, SkipFulfil,
       orderVars, panelVars, taskVars
<1>2. ServiceIsTheBuyers'
  BY ProvisioningAssumption
     DEF IInv, TypeOK, ServiceIsTheBuyers, TaskInv, OrderInv, SkipFulfil, orderVars, panelVars,
       taskVars
<1>3. OrderInv'
  BY ProvisioningAssumption
     DEF IInv, TypeOK, OrderInv, TaskInv, SkipFulfil, orderVars, panelVars, taskVars
<1>4. TaskInv'
  BY ProvisioningAssumption
     DEF IInv, TypeOK, OrderInv, TaskInv, ServiceIsTheBuyers, Task, SkipFulfil, orderVars,
       panelVars, taskVars
<1>5. NoneDisabled'
  BY ProvisioningAssumption
     DEF IInv, TypeOK, NoneDisabled, ServiceIsTheBuyers, Service, SkipFulfil, orderVars, panelVars,
       taskVars
<1> QED BY <1>1, <1>2, <1>3, <1>4, <1>5 DEF IInv

LEMMA StartFulfilIInv ==
  ASSUME IInv, NEW w \in Worker, NEW o \in Order, StartFulfil(w, o) PROVE IInv'
<1>1. TypeOK'
  BY ProvisioningAssumption
     DEF IInv, TypeOK, OrderInv, TaskInv, ServiceIsTheBuyers, Service, Task, Phase, StartFulfil,
       Pending, orderVars, panelVars, taskVars
<1>2. ServiceIsTheBuyers'
  BY ProvisioningAssumption
     DEF IInv, TypeOK, ServiceIsTheBuyers, TaskInv, OrderInv, StartFulfil, Pending, orderVars,
       panelVars, taskVars
<1>3. OrderInv'
  BY ProvisioningAssumption
     DEF IInv, TypeOK, OrderInv, TaskInv, StartFulfil, Pending, orderVars, panelVars, taskVars
<1>4. TaskInv'
  BY ProvisioningAssumption
     DEF IInv, TypeOK, OrderInv, TaskInv, ServiceIsTheBuyers, Task, StartFulfil, Pending, orderVars,
       panelVars, taskVars
<1>5. NoneDisabled'
  BY ProvisioningAssumption
     DEF IInv, TypeOK, NoneDisabled, ServiceIsTheBuyers, Service, StartFulfil, Pending, orderVars,
       panelVars, taskVars
<1> QED BY <1>1, <1>2, <1>3, <1>4, <1>5 DEF IInv

LEMMA CheckNewNameIInv ==
  ASSUME IInv, NEW o \in Order, NEW n \in Name, CheckNewName(o, n) PROVE IInv'
<1>1. TypeOK'
  BY ProvisioningAssumption
     DEF IInv, TypeOK, OrderInv, TaskInv, ServiceIsTheBuyers, Service, Task, Phase, CheckNewName,
       orderVars, panelVars, taskVars
<1>2. ServiceIsTheBuyers'
  BY ProvisioningAssumption
     DEF IInv, TypeOK, ServiceIsTheBuyers, TaskInv, OrderInv, CheckNewName, orderVars, panelVars,
       taskVars
<1>3. OrderInv'
  BY ProvisioningAssumption
     DEF IInv, TypeOK, OrderInv, TaskInv, CheckNewName, orderVars, panelVars, taskVars
<1>4. TaskInv'
  BY ProvisioningAssumption
     DEF IInv, TypeOK, OrderInv, TaskInv, ServiceIsTheBuyers, Task, CheckNewName, orderVars,
       panelVars, taskVars
<1>5. NoneDisabled'
  BY ProvisioningAssumption
     DEF IInv, TypeOK, NoneDisabled, ServiceIsTheBuyers, Service, CheckNewName, orderVars,
       panelVars, taskVars
<1> QED BY <1>1, <1>2, <1>3, <1>4, <1>5 DEF IInv

LEMMA RenamePaidOrderIInv ==
  ASSUME IInv, NEW o \in Order, RenamePaidOrder(o) PROVE IInv'
<1>1. TypeOK'
  BY ProvisioningAssumption
     DEF IInv, TypeOK, OrderInv, TaskInv, ServiceIsTheBuyers, Service, Task, Phase, RenamePaidOrder,
       orderVars, panelVars, taskVars
<1>2. ServiceIsTheBuyers'
  BY ProvisioningAssumption
     DEF IInv, TypeOK, ServiceIsTheBuyers, TaskInv, OrderInv, RenamePaidOrder, orderVars, panelVars,
       taskVars
<1>3. OrderInv'
  BY ProvisioningAssumption
     DEF IInv, TypeOK, OrderInv, TaskInv, RenamePaidOrder, orderVars, panelVars, taskVars
<1>4. TaskInv'
  BY ProvisioningAssumption
     DEF IInv, TypeOK, OrderInv, TaskInv, ServiceIsTheBuyers, Task, RenamePaidOrder, orderVars,
       panelVars, taskVars
<1>5. NoneDisabled'
  BY ProvisioningAssumption
     DEF IInv, TypeOK, NoneDisabled, ServiceIsTheBuyers, Service, RenamePaidOrder, orderVars,
       panelVars, taskVars
<1> QED BY <1>1, <1>2, <1>3, <1>4, <1>5 DEF IInv

LEMMA RetryProvisionIInv ==
  ASSUME IInv, NEW o \in Order, RetryProvision(o) PROVE IInv'
<1>1. TypeOK'
  BY ProvisioningAssumption
     DEF IInv, TypeOK, OrderInv, TaskInv, ServiceIsTheBuyers, Service, Task, Phase, RetryProvision,
       orderVars, panelVars, taskVars
<1>2. ServiceIsTheBuyers'
  BY ProvisioningAssumption
     DEF IInv, TypeOK, ServiceIsTheBuyers, TaskInv, OrderInv, RetryProvision, orderVars, panelVars,
       taskVars
<1>3. OrderInv'
  BY ProvisioningAssumption
     DEF IInv, TypeOK, OrderInv, TaskInv, RetryProvision, orderVars, panelVars, taskVars
<1>4. TaskInv'
  BY ProvisioningAssumption
     DEF IInv, TypeOK, OrderInv, TaskInv, ServiceIsTheBuyers, Task, RetryProvision, orderVars,
       panelVars, taskVars
<1>5. NoneDisabled'
  BY ProvisioningAssumption
     DEF IInv, TypeOK, NoneDisabled, ServiceIsTheBuyers, Service, RetryProvision, orderVars,
       panelVars, taskVars
<1> QED BY <1>1, <1>2, <1>3, <1>4, <1>5 DEF IInv

LEMMA RetryWithNameIInv ==
  ASSUME IInv, NEW o \in Order, NEW n \in Name, RetryWithName(o, n) PROVE IInv'
<1>0. KeepsOwners
  BY ProvisioningAssumption DEF KeepsOwners, IInv, TypeOK, ServiceIsTheBuyers, Service, RetryWithName, Linked
<1>1. TypeOK'
  BY ProvisioningAssumption
     DEF IInv, TypeOK, OrderInv, TaskInv, ServiceIsTheBuyers, Service, Task, Phase, RetryWithName,
       Linked, orderVars, panelVars, taskVars
<1>2. ServiceIsTheBuyers'
  BY <1>0, KeptServices DEF RetryWithName, Linked, orderVars, panelVars, taskVars
<1>3. OrderInv'
  BY ProvisioningAssumption
     DEF IInv, TypeOK, OrderInv, TaskInv, RetryWithName, Linked, orderVars, panelVars, taskVars
<1>4. TaskInv'
  BY ProvisioningAssumption
     DEF IInv, TypeOK, OrderInv, TaskInv, ServiceIsTheBuyers, Task, RetryWithName, Linked,
       orderVars, panelVars, taskVars
<1>5. NoneDisabled'
  BY ProvisioningAssumption
     DEF IInv, TypeOK, NoneDisabled, ServiceIsTheBuyers, Service, RetryWithName, Linked, orderVars,
       panelVars, taskVars
<1> QED BY <1>1, <1>2, <1>3, <1>4, <1>5 DEF IInv

LEMMA VoidDisableIInv ==
  ASSUME IInv, NEW o \in Order, VoidDisable(o) PROVE IInv'
<1>0. KeepsOwners
  BY ProvisioningAssumption DEF KeepsOwners, IInv, TypeOK, ServiceIsTheBuyers, Service, VoidDisable, Mirrors, Linked
<1>1. TypeOK'
  BY ProvisioningAssumption
     DEF IInv, TypeOK, OrderInv, TaskInv, ServiceIsTheBuyers, Service, Task, Phase, VoidDisable,
       Mirrors, Linked, orderVars, panelVars, taskVars
<1>2. ServiceIsTheBuyers'
  BY <1>0, KeptServices DEF VoidDisable, Mirrors, Linked, orderVars, panelVars, taskVars
<1>3. OrderInv'
  BY ProvisioningAssumption
     DEF IInv, TypeOK, OrderInv, TaskInv, VoidDisable, Mirrors, Linked, orderVars, panelVars,
       taskVars
<1>4. TaskInv'
  BY <1>0, KeptTasks DEF VoidDisable, Mirrors, Linked, orderVars, panelVars, taskVars
<1>5. NoneDisabled'
  BY ProvisioningAssumption
     DEF IInv, TypeOK, NoneDisabled, ServiceIsTheBuyers, Service, VoidDisable, Mirrors, Linked,
       orderVars, panelVars, taskVars
<1> QED BY <1>1, <1>2, <1>3, <1>4, <1>5 DEF IInv

LEMMA VoidDeleteIInv ==
  ASSUME IInv, NEW o \in Order, VoidDelete(o) PROVE IInv'
<1>1. TypeOK'
  BY ProvisioningAssumption
     DEF IInv, TypeOK, OrderInv, TaskInv, ServiceIsTheBuyers, Service, Task, Phase, VoidDelete,
       orderVars, panelVars, taskVars
<1>2. ServiceIsTheBuyers'
  BY ProvisioningAssumption
     DEF IInv, TypeOK, ServiceIsTheBuyers, TaskInv, OrderInv, VoidDelete, orderVars, panelVars,
       taskVars
<1>3. OrderInv'
  BY ProvisioningAssumption
     DEF IInv, TypeOK, OrderInv, TaskInv, VoidDelete, orderVars, panelVars, taskVars
<1>4. TaskInv'
  BY ProvisioningAssumption
     DEF IInv, TypeOK, OrderInv, TaskInv, ServiceIsTheBuyers, Task, VoidDelete, orderVars,
       panelVars, taskVars
<1>5. NoneDisabled'
  BY ProvisioningAssumption
     DEF IInv, TypeOK, NoneDisabled, ServiceIsTheBuyers, Service, VoidDelete, orderVars, panelVars,
       taskVars
<1> QED BY <1>1, <1>2, <1>3, <1>4, <1>5 DEF IInv

LEMMA FindRowIInv ==
  ASSUME IInv, NEW w \in Worker, FindRow(w) PROVE IInv'
<1>1. TypeOK'
  BY ProvisioningAssumption
     DEF IInv, TypeOK, OrderInv, TaskInv, ServiceIsTheBuyers, Service, Task, Phase, FindRow,
       Working, MovesOn, Named, Pending, orderVars, panelVars, taskVars
<1>2. ServiceIsTheBuyers'
  BY ProvisioningAssumption
     DEF IInv, TypeOK, ServiceIsTheBuyers, TaskInv, OrderInv, FindRow, Working, MovesOn, Named,
       Pending, orderVars, panelVars, taskVars
<1>3. OrderInv'
  BY ProvisioningAssumption
     DEF IInv, TypeOK, OrderInv, TaskInv, FindRow, Working, MovesOn, Named, Pending, orderVars,
       panelVars, taskVars
<1>4. TaskInv'
  BY ProvisioningAssumption
     DEF IInv, TypeOK, OrderInv, TaskInv, ServiceIsTheBuyers, Task, FindRow, Working, MovesOn,
       Named, Pending, orderVars, panelVars, taskVars
<1>5. NoneDisabled'
  BY ProvisioningAssumption
     DEF IInv, TypeOK, NoneDisabled, ServiceIsTheBuyers, Service, FindRow, Working, MovesOn, Named,
       Pending, orderVars, panelVars, taskVars
<1> QED BY <1>1, <1>2, <1>3, <1>4, <1>5 DEF IInv

LEMMA MakeRowIInv ==
  ASSUME IInv, NEW w \in Worker, MakeRow(w) PROVE IInv'
<1>1. TypeOK'
  BY ProvisioningAssumption
     DEF IInv, TypeOK, OrderInv, TaskInv, ServiceIsTheBuyers, Service, Task, Phase, MakeRow,
       Working, FreshRow, Named, orderVars, panelVars, taskVars
<1>2. ServiceIsTheBuyers'
  BY ProvisioningAssumption
     DEF IInv, TypeOK, ServiceIsTheBuyers, TaskInv, OrderInv, MakeRow, Working, FreshRow, Named,
       orderVars, panelVars, taskVars
<1>3. OrderInv'
  BY ProvisioningAssumption
     DEF IInv, TypeOK, OrderInv, TaskInv, MakeRow, Working, FreshRow, Named, orderVars, panelVars,
       taskVars
<1>4. TaskInv'
  BY ProvisioningAssumption
     DEF IInv, TypeOK, OrderInv, TaskInv, ServiceIsTheBuyers, Task, MakeRow, Working, FreshRow,
       Named, orderVars, panelVars, taskVars
<1>5. NoneDisabled'
  BY ProvisioningAssumption
     DEF IInv, TypeOK, NoneDisabled, ServiceIsTheBuyers, Service, MakeRow, Working, FreshRow, Named,
       orderVars, panelVars, taskVars
<1> QED BY <1>1, <1>2, <1>3, <1>4, <1>5 DEF IInv

LEMMA LinkRowIInv ==
  ASSUME IInv, NEW w \in Worker, LinkRow(w) PROVE IInv'
<1>1. TypeOK'
  BY ProvisioningAssumption
     DEF IInv, TypeOK, OrderInv, TaskInv, ServiceIsTheBuyers, Service, Task, Phase, LinkRow,
       Working, MovesOn, orderVars, panelVars, taskVars
<1>2. ServiceIsTheBuyers'
  BY ProvisioningAssumption
     DEF IInv, TypeOK, ServiceIsTheBuyers, TaskInv, OrderInv, LinkRow, Working, MovesOn, orderVars,
       panelVars, taskVars
<1>3. OrderInv'
  BY ProvisioningAssumption
     DEF IInv, TypeOK, OrderInv, TaskInv, LinkRow, Working, MovesOn, orderVars, panelVars, taskVars
<1>4. TaskInv'
  BY ProvisioningAssumption
     DEF IInv, TypeOK, OrderInv, TaskInv, ServiceIsTheBuyers, Task, LinkRow, Working, MovesOn,
       orderVars, panelVars, taskVars
<1>5. NoneDisabled'
  BY ProvisioningAssumption
     DEF IInv, TypeOK, NoneDisabled, ServiceIsTheBuyers, Service, LinkRow, Working, MovesOn,
       orderVars, panelVars, taskVars
<1> QED BY <1>1, <1>2, <1>3, <1>4, <1>5 DEF IInv

LEMMA ResyncIInv ==
  ASSUME IInv, NEW w \in Worker, Resync(w) PROVE IInv'
<1>1. TypeOK'
  BY ProvisioningAssumption
     DEF IInv, TypeOK, OrderInv, TaskInv, ServiceIsTheBuyers, Service, Task, Phase, Resync,
       Provisioning, MovesOn, Working, Linked, orderVars, panelVars, taskVars
<1>2. ServiceIsTheBuyers'
  BY ProvisioningAssumption
     DEF IInv, TypeOK, ServiceIsTheBuyers, TaskInv, OrderInv, Resync, Provisioning, MovesOn,
       Working, Linked, orderVars, panelVars, taskVars
<1>3. OrderInv'
  BY ProvisioningAssumption
     DEF IInv, TypeOK, OrderInv, TaskInv, Resync, Provisioning, MovesOn, Working, Linked, orderVars,
       panelVars, taskVars
<1>4. TaskInv'
  BY ProvisioningAssumption
     DEF IInv, TypeOK, OrderInv, TaskInv, ServiceIsTheBuyers, Task, Resync, Provisioning, MovesOn,
       Working, Linked, orderVars, panelVars, taskVars
<1>5. NoneDisabled'
  BY ProvisioningAssumption
     DEF IInv, TypeOK, NoneDisabled, ServiceIsTheBuyers, Service, Resync, Provisioning, MovesOn,
       Working, Linked, orderVars, panelVars, taskVars
<1> QED BY <1>1, <1>2, <1>3, <1>4, <1>5 DEF IInv

LEMMA CreateAccountIInv ==
  ASSUME IInv, NEW w \in Worker, CreateAccount(w) PROVE IInv'
<1>0. KeepsOwners
  BY ProvisioningAssumption DEF KeepsOwners, IInv, TypeOK, ServiceIsTheBuyers, Service, CreateAccount, Provisioning, MovesOn, Working, Linked, Mirrors
<1>1. TypeOK'
  BY ProvisioningAssumption
     DEF IInv, TypeOK, OrderInv, TaskInv, ServiceIsTheBuyers, Service, Task, Phase, CreateAccount,
       Provisioning, MovesOn, Working, Linked, Mirrors, orderVars, panelVars, taskVars
<1>2. ServiceIsTheBuyers'
  BY <1>0, KeptServices DEF CreateAccount, Provisioning, MovesOn, Working, Linked, Mirrors, orderVars, panelVars, taskVars
<1>3. OrderInv'
  BY ProvisioningAssumption
     DEF IInv, TypeOK, OrderInv, TaskInv, CreateAccount, Provisioning, MovesOn, Working, Linked,
       Mirrors, orderVars, panelVars, taskVars
<1>4. TaskInv'
  BY ProvisioningAssumption
     DEF IInv, TypeOK, OrderInv, TaskInv, ServiceIsTheBuyers, Task, CreateAccount, Provisioning,
       MovesOn, Working, Linked, Mirrors, orderVars, panelVars, taskVars
<1>5. NoneDisabled'
  BY ProvisioningAssumption
     DEF IInv, TypeOK, NoneDisabled, ServiceIsTheBuyers, Service, CreateAccount, Provisioning,
       MovesOn, Working, Linked, Mirrors, orderVars, panelVars, taskVars
<1> QED BY <1>1, <1>2, <1>3, <1>4, <1>5 DEF IInv

LEMMA ReplyLostIInv ==
  ASSUME IInv, NEW w \in Worker, ReplyLost(w) PROVE IInv'
<1>1. TypeOK'
  BY ProvisioningAssumption
     DEF IInv, TypeOK, OrderInv, TaskInv, ServiceIsTheBuyers, Service, Task, Phase, ReplyLost,
       Provisioning, Ends, Working, Linked, orderVars, panelVars, taskVars
<1>2. ServiceIsTheBuyers'
  BY ProvisioningAssumption
     DEF IInv, TypeOK, ServiceIsTheBuyers, TaskInv, OrderInv, ReplyLost, Provisioning, Ends,
       Working, Linked, orderVars, panelVars, taskVars
<1>3. OrderInv'
  BY ProvisioningAssumption
     DEF IInv, TypeOK, OrderInv, TaskInv, ReplyLost, Provisioning, Ends, Working, Linked, orderVars,
       panelVars, taskVars
<1>4. TaskInv'
  BY ProvisioningAssumption
     DEF IInv, TypeOK, OrderInv, TaskInv, ServiceIsTheBuyers, Task, ReplyLost, Provisioning, Ends,
       Working, Linked, orderVars, panelVars, taskVars
<1>5. NoneDisabled'
  BY ProvisioningAssumption
     DEF IInv, TypeOK, NoneDisabled, ServiceIsTheBuyers, Service, ReplyLost, Provisioning, Ends,
       Working, Linked, orderVars, panelVars, taskVars
<1> QED BY <1>1, <1>2, <1>3, <1>4, <1>5 DEF IInv

LEMMA AdoptIInv ==
  ASSUME IInv, NEW w \in Worker, Adopt(w) PROVE IInv'
<1>0. KeepsOwners
  BY ProvisioningAssumption DEF KeepsOwners, IInv, TypeOK, ServiceIsTheBuyers, Service, Adopt, Provisioning, MovesOn, Working, Linked, Mirrors
<1>1. TypeOK'
  BY ProvisioningAssumption
     DEF IInv, TypeOK, OrderInv, TaskInv, ServiceIsTheBuyers, Service, Task, Phase, Adopt,
       Provisioning, MovesOn, Working, Linked, Mirrors, orderVars, panelVars, taskVars
<1>2. ServiceIsTheBuyers'
  BY <1>0, KeptServices DEF Adopt, Provisioning, MovesOn, Working, Linked, Mirrors, orderVars, panelVars, taskVars
<1>3. OrderInv'
  BY ProvisioningAssumption
     DEF IInv, TypeOK, OrderInv, TaskInv, Adopt, Provisioning, MovesOn, Working, Linked, Mirrors,
       orderVars, panelVars, taskVars
<1>4. TaskInv'
  BY ProvisioningAssumption
     DEF IInv, TypeOK, OrderInv, TaskInv, ServiceIsTheBuyers, Task, Adopt, Provisioning, MovesOn,
       Working, Linked, Mirrors, orderVars, panelVars, taskVars
<1>5. NoneDisabled'
  BY ProvisioningAssumption
     DEF IInv, TypeOK, NoneDisabled, ServiceIsTheBuyers, Service, Adopt, Provisioning, MovesOn,
       Working, Linked, Mirrors, orderVars, panelVars, taskVars
<1> QED BY <1>1, <1>2, <1>3, <1>4, <1>5 DEF IInv

LEMMA NameTakenIInv ==
  ASSUME IInv, NEW w \in Worker, NameTaken(w) PROVE IInv'
<1>1. TypeOK'
  BY ProvisioningAssumption
     DEF IInv, TypeOK, OrderInv, TaskInv, ServiceIsTheBuyers, Service, Task, Phase, NameTaken,
       Provisioning, MovesOn, Working, Linked, orderVars, panelVars, taskVars
<1>2. ServiceIsTheBuyers'
  BY ProvisioningAssumption
     DEF IInv, TypeOK, ServiceIsTheBuyers, TaskInv, OrderInv, NameTaken, Provisioning, MovesOn,
       Working, Linked, orderVars, panelVars, taskVars
<1>3. OrderInv'
  BY ProvisioningAssumption
     DEF IInv, TypeOK, OrderInv, TaskInv, NameTaken, Provisioning, MovesOn, Working, Linked,
       orderVars, panelVars, taskVars
<1>4. TaskInv'
  BY ProvisioningAssumption
     DEF IInv, TypeOK, OrderInv, TaskInv, ServiceIsTheBuyers, Task, NameTaken, Provisioning,
       MovesOn, Working, Linked, orderVars, panelVars, taskVars
<1>5. NoneDisabled'
  BY ProvisioningAssumption
     DEF IInv, TypeOK, NoneDisabled, ServiceIsTheBuyers, Service, NameTaken, Provisioning, MovesOn,
       Working, Linked, orderVars, panelVars, taskVars
<1> QED BY <1>1, <1>2, <1>3, <1>4, <1>5 DEF IInv

LEMMA PanelRefusesIInv ==
  ASSUME IInv, NEW w \in Worker, PanelRefuses(w) PROVE IInv'
<1>1. TypeOK'
  BY ProvisioningAssumption
     DEF IInv, TypeOK, OrderInv, TaskInv, ServiceIsTheBuyers, Service, Task, Phase, PanelRefuses,
       Provisioning, MovesOn, Working, orderVars, panelVars, taskVars
<1>2. ServiceIsTheBuyers'
  BY ProvisioningAssumption
     DEF IInv, TypeOK, ServiceIsTheBuyers, TaskInv, OrderInv, PanelRefuses, Provisioning, MovesOn,
       Working, orderVars, panelVars, taskVars
<1>3. OrderInv'
  BY ProvisioningAssumption
     DEF IInv, TypeOK, OrderInv, TaskInv, PanelRefuses, Provisioning, MovesOn, Working, orderVars,
       panelVars, taskVars
<1>4. TaskInv'
  BY ProvisioningAssumption
     DEF IInv, TypeOK, OrderInv, TaskInv, ServiceIsTheBuyers, Task, PanelRefuses, Provisioning,
       MovesOn, Working, orderVars, panelVars, taskVars
<1>5. NoneDisabled'
  BY ProvisioningAssumption
     DEF IInv, TypeOK, NoneDisabled, ServiceIsTheBuyers, Service, PanelRefuses, Provisioning,
       MovesOn, Working, orderVars, panelVars, taskVars
<1> QED BY <1>1, <1>2, <1>3, <1>4, <1>5 DEF IInv

LEMMA AskForNewNameIInv ==
  ASSUME IInv, NEW w \in Worker, AskForNewName(w) PROVE IInv'
<1>1. TypeOK'
  BY ProvisioningAssumption
     DEF IInv, TypeOK, OrderInv, TaskInv, ServiceIsTheBuyers, Service, Task, Phase, AskForNewName,
       Working, Acknowledges, Ends, orderVars, panelVars, taskVars
<1>2. ServiceIsTheBuyers'
  BY ProvisioningAssumption
     DEF IInv, TypeOK, ServiceIsTheBuyers, TaskInv, OrderInv, AskForNewName, Working, Acknowledges,
       Ends, orderVars, panelVars, taskVars
<1>3. OrderInv'
  BY ProvisioningAssumption
     DEF IInv, TypeOK, OrderInv, TaskInv, AskForNewName, Working, Acknowledges, Ends, orderVars,
       panelVars, taskVars
<1>4. TaskInv'
  BY ProvisioningAssumption
     DEF IInv, TypeOK, OrderInv, TaskInv, ServiceIsTheBuyers, Task, AskForNewName, Working,
       Acknowledges, Ends, orderVars, panelVars, taskVars
<1>5. NoneDisabled'
  BY ProvisioningAssumption
     DEF IInv, TypeOK, NoneDisabled, ServiceIsTheBuyers, Service, AskForNewName, Working,
       Acknowledges, Ends, orderVars, panelVars, taskVars
<1> QED BY <1>1, <1>2, <1>3, <1>4, <1>5 DEF IInv

LEMMA ProvisionFailedIInv ==
  ASSUME IInv, NEW w \in Worker, ProvisionFailed(w) PROVE IInv'
<1>1. TypeOK'
  BY ProvisioningAssumption
     DEF IInv, TypeOK, OrderInv, TaskInv, ServiceIsTheBuyers, Service, Task, Phase, ProvisionFailed,
       Working, Acknowledges, Ends, orderVars, panelVars, taskVars
<1>2. ServiceIsTheBuyers'
  BY ProvisioningAssumption
     DEF IInv, TypeOK, ServiceIsTheBuyers, TaskInv, OrderInv, ProvisionFailed, Working,
       Acknowledges, Ends, orderVars, panelVars, taskVars
<1>3. OrderInv'
  BY ProvisioningAssumption
     DEF IInv, TypeOK, OrderInv, TaskInv, ProvisionFailed, Working, Acknowledges, Ends, orderVars,
       panelVars, taskVars
<1>4. TaskInv'
  BY ProvisioningAssumption
     DEF IInv, TypeOK, OrderInv, TaskInv, ServiceIsTheBuyers, Task, ProvisionFailed, Working,
       Acknowledges, Ends, orderVars, panelVars, taskVars
<1>5. NoneDisabled'
  BY ProvisioningAssumption
     DEF IInv, TypeOK, NoneDisabled, ServiceIsTheBuyers, Service, ProvisionFailed, Working,
       Acknowledges, Ends, orderVars, panelVars, taskVars
<1> QED BY <1>1, <1>2, <1>3, <1>4, <1>5 DEF IInv

LEMMA CompleteIInv ==
  ASSUME IInv, NEW w \in Worker, Complete(w) PROVE IInv'
<1>1. TypeOK'
  BY ProvisioningAssumption
     DEF IInv, TypeOK, OrderInv, TaskInv, ServiceIsTheBuyers, Service, Task, Phase, Complete,
       Working, Acknowledges, Ends, orderVars, panelVars, taskVars
<1>2. ServiceIsTheBuyers'
  BY ProvisioningAssumption
     DEF IInv, TypeOK, ServiceIsTheBuyers, TaskInv, OrderInv, Complete, Working, Acknowledges, Ends,
       orderVars, panelVars, taskVars
<1>3. OrderInv'
  BY ProvisioningAssumption
     DEF IInv, TypeOK, OrderInv, TaskInv, Complete, Working, Acknowledges, Ends, orderVars,
       panelVars, taskVars
<1>4. TaskInv'
  BY ProvisioningAssumption
     DEF IInv, TypeOK, OrderInv, TaskInv, ServiceIsTheBuyers, Task, Complete, Working, Acknowledges,
       Ends, orderVars, panelVars, taskVars
<1>5. NoneDisabled'
  BY ProvisioningAssumption
     DEF IInv, TypeOK, NoneDisabled, ServiceIsTheBuyers, Service, Complete, Working, Acknowledges,
       Ends, orderVars, panelVars, taskVars
<1> QED BY <1>1, <1>2, <1>3, <1>4, <1>5 DEF IInv

LEMMA AbortIInv ==
  ASSUME IInv, NEW w \in Worker, Abort(w) PROVE IInv'
<1>1. TypeOK'
  BY ProvisioningAssumption
     DEF IInv, TypeOK, OrderInv, TaskInv, ServiceIsTheBuyers, Service, Task, Phase, Abort, Ends,
       orderVars, panelVars, taskVars
<1>2. ServiceIsTheBuyers'
  BY ProvisioningAssumption
     DEF IInv, TypeOK, ServiceIsTheBuyers, TaskInv, OrderInv, Abort, Ends, orderVars, panelVars,
       taskVars
<1>3. OrderInv'
  BY ProvisioningAssumption
     DEF IInv, TypeOK, OrderInv, TaskInv, Abort, Ends, orderVars, panelVars, taskVars
<1>4. TaskInv'
  BY ProvisioningAssumption
     DEF IInv, TypeOK, OrderInv, TaskInv, ServiceIsTheBuyers, Task, Abort, Ends, orderVars,
       panelVars, taskVars
<1>5. NoneDisabled'
  BY ProvisioningAssumption
     DEF IInv, TypeOK, NoneDisabled, ServiceIsTheBuyers, Service, Abort, Ends, orderVars, panelVars,
       taskVars
<1> QED BY <1>1, <1>2, <1>3, <1>4, <1>5 DEF IInv

LEMMA SyncAllIInv ==
  ASSUME IInv, NEW i \in Row, SyncAll(i) PROVE IInv'
<1>0. KeepsOwners
  BY ProvisioningAssumption DEF KeepsOwners, IInv, TypeOK, ServiceIsTheBuyers, Service, SyncAll, Sync, Mirrors, Linked, Pending
<1>1. TypeOK'
  BY ProvisioningAssumption
     DEF IInv, TypeOK, OrderInv, TaskInv, ServiceIsTheBuyers, Service, Task, Phase, SyncAll, Sync,
       Mirrors, Linked, Pending, orderVars, panelVars, taskVars
<1>2. ServiceIsTheBuyers'
  BY <1>0, KeptServices DEF SyncAll, Sync, Mirrors, Linked, Pending, orderVars, panelVars, taskVars
<1>3. OrderInv'
  BY ProvisioningAssumption
     DEF IInv, TypeOK, OrderInv, TaskInv, SyncAll, Sync, Mirrors, Linked, Pending, orderVars,
       panelVars, taskVars
<1>4. TaskInv'
  BY <1>0, KeptTasks DEF SyncAll, Sync, Mirrors, Linked, Pending, orderVars, panelVars, taskVars
<1>5. NoneDisabled'
  BY ProvisioningAssumption
     DEF IInv, TypeOK, NoneDisabled, ServiceIsTheBuyers, Service, SyncAll, Sync, Mirrors, Linked,
       Pending, orderVars, panelVars, taskVars
<1> QED BY <1>1, <1>2, <1>3, <1>4, <1>5 DEF IInv

LEMMA RefreshIInv ==
  ASSUME IInv, NEW i \in Row, Refresh(i) PROVE IInv'
<1>0. KeepsOwners
  BY ProvisioningAssumption DEF KeepsOwners, IInv, TypeOK, ServiceIsTheBuyers, Service, Refresh, Sync, Mirrors, Linked
<1>1. TypeOK'
  BY ProvisioningAssumption
     DEF IInv, TypeOK, OrderInv, TaskInv, ServiceIsTheBuyers, Service, Task, Phase, Refresh, Sync,
       Mirrors, Linked, orderVars, panelVars, taskVars
<1>2. ServiceIsTheBuyers'
  BY <1>0, KeptServices DEF Refresh, Sync, Mirrors, Linked, orderVars, panelVars, taskVars
<1>3. OrderInv'
  BY ProvisioningAssumption
     DEF IInv, TypeOK, OrderInv, TaskInv, Refresh, Sync, Mirrors, Linked, orderVars, panelVars,
       taskVars
<1>4. TaskInv'
  BY <1>0, KeptTasks DEF Refresh, Sync, Mirrors, Linked, orderVars, panelVars, taskVars
<1>5. NoneDisabled'
  BY ProvisioningAssumption
     DEF IInv, TypeOK, NoneDisabled, ServiceIsTheBuyers, Service, Refresh, Sync, Mirrors, Linked,
       orderVars, panelVars, taskVars
<1> QED BY <1>1, <1>2, <1>3, <1>4, <1>5 DEF IInv

LEMMA ForeignTakesIInv ==
  ASSUME IInv, NEW n \in Name, ForeignTakes(n) PROVE IInv'
<1>1. TypeOK'
  BY ProvisioningAssumption
     DEF IInv, TypeOK, OrderInv, TaskInv, ServiceIsTheBuyers, Service, Task, Phase, ForeignTakes,
       orderVars, panelVars, taskVars
<1>2. ServiceIsTheBuyers'
  BY ProvisioningAssumption
     DEF IInv, TypeOK, ServiceIsTheBuyers, TaskInv, OrderInv, ForeignTakes, orderVars, panelVars,
       taskVars
<1>3. OrderInv'
  BY ProvisioningAssumption
     DEF IInv, TypeOK, OrderInv, TaskInv, ForeignTakes, orderVars, panelVars, taskVars
<1>4. TaskInv'
  BY ProvisioningAssumption
     DEF IInv, TypeOK, OrderInv, TaskInv, ServiceIsTheBuyers, Task, ForeignTakes, orderVars,
       panelVars, taskVars
<1>5. NoneDisabled'
  BY ProvisioningAssumption
     DEF IInv, TypeOK, NoneDisabled, ServiceIsTheBuyers, Service, ForeignTakes, orderVars,
       panelVars, taskVars
<1> QED BY <1>1, <1>2, <1>3, <1>4, <1>5 DEF IInv
-----------------------------------------------------------------------------
LEMMA StepIInv == IInv /\ [Next]_vars => IInv'
<1> SUFFICES ASSUME IInv, [Next]_vars PROVE IInv'
  OBVIOUS
<1>1. ASSUME NEW w \in Worker, TaskStep(w) PROVE IInv'
  BY <1>1, FindRowIInv, MakeRowIInv, LinkRowIInv, ResyncIInv, CreateAccountIInv, ReplyLostIInv,
     AdoptIInv, NameTakenIInv, PanelRefusesIInv, AskForNewNameIInv, ProvisionFailedIInv,
     CompleteIInv, AbortIInv DEF TaskStep
<1>2. ASSUME NEW o \in Order, OrderStep(o) PROVE IInv'
  BY <1>2, PlaceOrderIInv, PayIInv, RetryUnfulfilledIInv, SkipFulfilIInv, StartFulfilIInv,
     CheckNewNameIInv, RenamePaidOrderIInv, RetryProvisionIInv, RetryWithNameIInv, VoidDisableIInv,
     VoidDeleteIInv DEF OrderStep
<1>3. CASE PanelGoesDown \/ PanelComesUp \/ UNCHANGED vars
  BY <1>3 DEF IInv, TypeOK, ServiceIsTheBuyers, OrderInv, TaskInv, NoneDisabled, PanelGoesDown, PanelComesUp,
     vars, orderVars, panelVars, taskVars
<1> QED BY <1>1, <1>2, <1>3, SyncAllIInv, RefreshIInv, ForeignTakesIInv DEF Next

THEOREM ProvisioningInvariant == Spec => []IInv
<1> QED BY InitIInv, StepIInv, PTL DEF Spec

(* The rows of orders, services and tasks stay well typed.                 *)
THEOREM ProvisioningTypeOK == Spec => []TypeOK
<1>1. IInv => TypeOK
  BY DEF IInv
<1> QED BY <1>1, ProvisioningInvariant, PTL

(* An order's service is always a row of the customer who ordered it.      *)
THEOREM OrdersKeepTheirBuyersService == Spec => []ServiceIsTheBuyers
<1>1. IInv => ServiceIsTheBuyers
  BY DEF IInv
<1> QED BY <1>1, ProvisioningInvariant, PTL
-----------------------------------------------------------------------------
(* As long as no row that was never built is synced on demand or disabled, *)
(* a row is linked only to the account made for it.                        *)
LinkedToOwn == \A i \in Row : row[i] # None /\ ~Linked(i) /\ Linked(i)' => account'[row'[i].name] = i

LEMMA StepLinksOwn ==
  ASSUME ~OnDemand, "disable" \notin VoidActions, IInv, [Next]_vars
  PROVE  LinkedToOwn
<1>1. ASSUME NEW w \in Worker, TaskStep(w) PROVE LinkedToOwn
  <2>1. CASE FindRow(w)
    BY <2>1, ProvisioningAssumption
       DEF FindRow, LinkedToOwn, Linked, IInv, TypeOK, Service, panelVars, Working, MovesOn, Named,
         Pending
  <2>2. CASE MakeRow(w)
    BY <2>2, ProvisioningAssumption
       DEF MakeRow, LinkedToOwn, Linked, IInv, TypeOK, Service, panelVars, TaskInv, Working,
         FreshRow, Named
  <2>3. CASE LinkRow(w)
    BY <2>3, ProvisioningAssumption
       DEF LinkRow, LinkedToOwn, Linked, IInv, TypeOK, Service, panelVars, Working, MovesOn
  <2>4. CASE Resync(w)
    BY <2>4, ProvisioningAssumption
       DEF Resync, LinkedToOwn, Linked, IInv, TypeOK, Service, panelVars, Provisioning, MovesOn,
         Working
  <2>5. CASE CreateAccount(w)
    BY <2>5, ProvisioningAssumption
       DEF CreateAccount, LinkedToOwn, Linked, IInv, TypeOK, Service, panelVars, Provisioning,
         MovesOn, Working, Mirrors
  <2>6. CASE ReplyLost(w)
    BY <2>6, ProvisioningAssumption
       DEF ReplyLost, LinkedToOwn, Linked, IInv, TypeOK, Service, panelVars, Provisioning, Ends,
         Working
  <2>7. CASE Adopt(w)
    BY <2>7, ProvisioningAssumption
       DEF Adopt, LinkedToOwn, Linked, IInv, TypeOK, Service, panelVars, Provisioning, MovesOn,
         Working, Mirrors
  <2>8. CASE NameTaken(w)
    BY <2>8, ProvisioningAssumption
       DEF NameTaken, LinkedToOwn, Linked, IInv, TypeOK, Service, panelVars, Provisioning, MovesOn,
         Working
  <2>9. CASE PanelRefuses(w)
    BY <2>9, ProvisioningAssumption
       DEF PanelRefuses, LinkedToOwn, Linked, IInv, TypeOK, Service, panelVars, Provisioning,
         MovesOn, Working
  <2>10. CASE AskForNewName(w)
    BY <2>10, ProvisioningAssumption
       DEF AskForNewName, LinkedToOwn, Linked, IInv, TypeOK, Service, panelVars, Working,
         Acknowledges, Ends
  <2>11. CASE ProvisionFailed(w)
    BY <2>11, ProvisioningAssumption
       DEF ProvisionFailed, LinkedToOwn, Linked, IInv, TypeOK, Service, panelVars, Working,
         Acknowledges, Ends
  <2>12. CASE Complete(w)
    BY <2>12, ProvisioningAssumption
       DEF Complete, LinkedToOwn, Linked, IInv, TypeOK, Service, panelVars, Working, Acknowledges,
         Ends
  <2>13. CASE Abort(w)
    BY <2>13, ProvisioningAssumption
       DEF Abort, LinkedToOwn, Linked, IInv, TypeOK, Service, panelVars, Ends
  <2> QED BY <1>1, <2>1, <2>2, <2>3, <2>4, <2>5, <2>6, <2>7, <2>8, <2>9, <2>10, <2>11, <2>12, <2>13 DEF TaskStep
<1>2. ASSUME NEW o \in Order, OrderStep(o) PROVE LinkedToOwn
  <2>1. ASSUME NEW u \in User, NEW n \in Name, PlaceOrder(o, u, n) PROVE LinkedToOwn
    BY <2>1, ProvisioningAssumption
       DEF PlaceOrder, LinkedToOwn, Linked, IInv, TypeOK, Service, panelVars
  <2>2. CASE Pay(o)
    BY <2>2, ProvisioningAssumption
       DEF Pay, LinkedToOwn, Linked, IInv, TypeOK, Service, panelVars
  <2>3. CASE RetryUnfulfilled(o)
    BY <2>3, ProvisioningAssumption
       DEF RetryUnfulfilled, LinkedToOwn, Linked, IInv, TypeOK, Service, panelVars
  <2>4. CASE SkipFulfil(o)
    BY <2>4, ProvisioningAssumption
       DEF SkipFulfil, LinkedToOwn, Linked, IInv, TypeOK, Service, panelVars
  <2>5. ASSUME NEW w \in Worker, StartFulfil(w, o) PROVE LinkedToOwn
    BY <2>5, ProvisioningAssumption
       DEF StartFulfil, LinkedToOwn, Linked, IInv, TypeOK, Service, panelVars, Pending
  <2>6. ASSUME NEW n \in Name, CheckNewName(o, n) PROVE LinkedToOwn
    BY <2>6, ProvisioningAssumption
       DEF CheckNewName, LinkedToOwn, Linked, IInv, TypeOK, Service, panelVars
  <2>7. CASE RenamePaidOrder(o)
    BY <2>7, ProvisioningAssumption
       DEF RenamePaidOrder, LinkedToOwn, Linked, IInv, TypeOK, Service, panelVars
  <2>8. CASE RetryProvision(o)
    BY <2>8, ProvisioningAssumption
       DEF RetryProvision, LinkedToOwn, Linked, IInv, TypeOK, Service, panelVars
  <2>9. ASSUME NEW n \in Name, RetryWithName(o, n) PROVE LinkedToOwn
    BY <2>9, ProvisioningAssumption
       DEF RetryWithName, LinkedToOwn, Linked, IInv, TypeOK, Service, panelVars, ServiceIsTheBuyers
  <2>10. CASE VoidDisable(o)
    BY <2>10, ProvisioningAssumption
       DEF VoidDisable, LinkedToOwn, Linked, IInv, TypeOK, Service, panelVars, ServiceIsTheBuyers,
         Mirrors
  <2>11. CASE VoidDelete(o)
    BY <2>11, ProvisioningAssumption
       DEF VoidDelete, LinkedToOwn, Linked, IInv, TypeOK, Service, panelVars, ServiceIsTheBuyers
  <2> QED BY <1>2, <2>1, <2>2, <2>3, <2>4, <2>5, <2>6, <2>7, <2>8, <2>9, <2>10, <2>11 DEF OrderStep
<1>3. ASSUME NEW i \in Row, SyncAll(i) PROVE LinkedToOwn
  BY <1>3, ProvisioningAssumption DEF LinkedToOwn, Linked, Pending, IInv, TypeOK, Service, NoneDisabled, SyncAll, Sync, Mirrors
<1>4. ASSUME NEW i \in Row, Refresh(i) PROVE LinkedToOwn
  BY <1>4 DEF Refresh
<1>5. CASE (\E n \in Name : ForeignTakes(n)) \/ PanelGoesDown \/ PanelComesUp \/ UNCHANGED vars
  BY <1>5 DEF LinkedToOwn, Linked, ForeignTakes, PanelGoesDown, PanelComesUp, vars
<1> QED BY <1>1, <1>2, <1>3, <1>4, <1>5 DEF Next

(* Never attached to someone else: a row is linked only to its own account.*)
THEOREM ProvisioningLinksOwn ==
  ASSUME ~OnDemand, "disable" \notin VoidActions
  PROVE  Spec => LinksOwn
<1>1. IInv /\ [Next]_vars => [LinkedToOwn]_vars
  BY StepLinksOwn
<1> QED BY <1>1, ProvisioningInvariant, PTL DEF Spec, LinksOwn, LinkedToOwn
-----------------------------------------------------------------------------
(* With nobody renaming rows or deleting payments, no account is orphaned. *)
OrphanInv == NoOrphanAccount /\ TakenInv

LEMMA StepOrphan ==
  ASSUME ~StaffRename, VoidActions = {}, IInv, OrphanInv, [Next]_vars
  PROVE  OrphanInv'
<1>1. ASSUME NEW w \in Worker, TaskStep(w) PROVE OrphanInv'
  <2>1. CASE FindRow(w)
    BY <2>1, ProvisioningAssumption
       DEF FindRow, OrphanInv, NoOrphanAccount, TakenInv, Working, IInv, TypeOK, Service, Task,
         TaskInv, orderVars, panelVars, taskVars, MovesOn, Named, Pending
  <2>2. CASE MakeRow(w)
    BY <2>2, ProvisioningAssumption
       DEF MakeRow, OrphanInv, NoOrphanAccount, TakenInv, Working, IInv, TypeOK, Service, Task,
         TaskInv, orderVars, panelVars, taskVars, FreshRow, Named
  <2>3. CASE LinkRow(w)
    BY <2>3, ProvisioningAssumption
       DEF LinkRow, OrphanInv, NoOrphanAccount, TakenInv, Working, IInv, TypeOK, Service, Task,
         TaskInv, orderVars, panelVars, taskVars, MovesOn
  <2>4. CASE Resync(w)
    BY <2>4, ProvisioningAssumption
       DEF Resync, OrphanInv, NoOrphanAccount, TakenInv, Working, IInv, TypeOK, Service, Task,
         TaskInv, orderVars, panelVars, taskVars, Provisioning, MovesOn, Linked
  <2>5. CASE CreateAccount(w)
    BY <2>5, ProvisioningAssumption
       DEF CreateAccount, OrphanInv, NoOrphanAccount, TakenInv, Working, IInv, TypeOK, Service,
         Task, TaskInv, orderVars, panelVars, taskVars, Provisioning, MovesOn, Linked, Mirrors
  <2>6. CASE ReplyLost(w)
    BY <2>6, ProvisioningAssumption
       DEF ReplyLost, OrphanInv, NoOrphanAccount, TakenInv, Working, IInv, TypeOK, Service, Task,
         TaskInv, orderVars, panelVars, taskVars, Provisioning, Ends, Linked
  <2>7. CASE Adopt(w)
    BY <2>7, ProvisioningAssumption
       DEF Adopt, OrphanInv, NoOrphanAccount, TakenInv, Working, IInv, TypeOK, Service, Task,
         TaskInv, orderVars, panelVars, taskVars, Provisioning, MovesOn, Linked, Mirrors
  <2>8. CASE NameTaken(w)
    BY <2>8, ProvisioningAssumption
       DEF NameTaken, OrphanInv, NoOrphanAccount, TakenInv, Working, IInv, TypeOK, Service, Task,
         TaskInv, orderVars, panelVars, taskVars, Provisioning, MovesOn, Linked
  <2>9. CASE PanelRefuses(w)
    BY <2>9, ProvisioningAssumption
       DEF PanelRefuses, OrphanInv, NoOrphanAccount, TakenInv, Working, IInv, TypeOK, Service, Task,
         TaskInv, orderVars, panelVars, taskVars, Provisioning, MovesOn
  <2>10. CASE AskForNewName(w)
    BY <2>10, ProvisioningAssumption
       DEF AskForNewName, OrphanInv, NoOrphanAccount, TakenInv, Working, IInv, TypeOK, Service,
         Task, TaskInv, orderVars, panelVars, taskVars, Acknowledges, Ends
  <2>11. CASE ProvisionFailed(w)
    BY <2>11, ProvisioningAssumption
       DEF ProvisionFailed, OrphanInv, NoOrphanAccount, TakenInv, Working, IInv, TypeOK, Service,
         Task, TaskInv, orderVars, panelVars, taskVars, Acknowledges, Ends
  <2>12. CASE Complete(w)
    BY <2>12, ProvisioningAssumption
       DEF Complete, OrphanInv, NoOrphanAccount, TakenInv, Working, IInv, TypeOK, Service, Task,
         TaskInv, orderVars, panelVars, taskVars, Acknowledges, Ends
  <2>13. CASE Abort(w)
    BY <2>13, ProvisioningAssumption
       DEF Abort, OrphanInv, NoOrphanAccount, TakenInv, Working, IInv, TypeOK, Service, Task,
         TaskInv, orderVars, panelVars, taskVars, Ends
  <2> QED BY <1>1, <2>1, <2>2, <2>3, <2>4, <2>5, <2>6, <2>7, <2>8, <2>9, <2>10, <2>11, <2>12, <2>13 DEF TaskStep
<1>2. ASSUME NEW o \in Order, OrderStep(o) PROVE OrphanInv'
  <2>1. ASSUME NEW u \in User, NEW n \in Name, PlaceOrder(o, u, n) PROVE OrphanInv'
    BY <2>1, ProvisioningAssumption
       DEF PlaceOrder, OrphanInv, NoOrphanAccount, TakenInv, Working, IInv, TypeOK, Service, Task,
         TaskInv, orderVars, panelVars, taskVars
  <2>2. CASE Pay(o)
    BY <2>2, ProvisioningAssumption
       DEF Pay, OrphanInv, NoOrphanAccount, TakenInv, Working, IInv, TypeOK, Service, Task, TaskInv,
         orderVars, panelVars, taskVars
  <2>3. CASE RetryUnfulfilled(o)
    BY <2>3, ProvisioningAssumption
       DEF RetryUnfulfilled, OrphanInv, NoOrphanAccount, TakenInv, Working, IInv, TypeOK, Service,
         Task, TaskInv, orderVars, panelVars, taskVars
  <2>4. CASE SkipFulfil(o)
    BY <2>4, ProvisioningAssumption
       DEF SkipFulfil, OrphanInv, NoOrphanAccount, TakenInv, Working, IInv, TypeOK, Service, Task,
         TaskInv, orderVars, panelVars, taskVars
  <2>5. ASSUME NEW w \in Worker, StartFulfil(w, o) PROVE OrphanInv'
    BY <2>5, ProvisioningAssumption
       DEF StartFulfil, OrphanInv, NoOrphanAccount, TakenInv, Working, IInv, TypeOK, Service, Task,
         TaskInv, orderVars, panelVars, taskVars, Pending
  <2>6. ASSUME NEW n \in Name, CheckNewName(o, n) PROVE OrphanInv'
    BY <2>6, ProvisioningAssumption
       DEF CheckNewName, OrphanInv, NoOrphanAccount, TakenInv, Working, IInv, TypeOK, Service, Task,
         TaskInv, orderVars, panelVars, taskVars
  <2>7. CASE RenamePaidOrder(o)
    BY <2>7, ProvisioningAssumption
       DEF RenamePaidOrder, OrphanInv, NoOrphanAccount, TakenInv, Working, IInv, TypeOK, Service,
         Task, TaskInv, orderVars, panelVars, taskVars
  <2>8. CASE RetryProvision(o)
    BY <2>8, ProvisioningAssumption
       DEF RetryProvision, OrphanInv, NoOrphanAccount, TakenInv, Working, IInv, TypeOK, Service,
         Task, TaskInv, orderVars, panelVars, taskVars
  <2>9. ASSUME NEW n \in Name, RetryWithName(o, n) PROVE OrphanInv'
    BY <2>9, ProvisioningAssumption
       DEF RetryWithName, OrphanInv, NoOrphanAccount, TakenInv, Working, IInv, TypeOK, Service,
         Task, TaskInv, orderVars, panelVars, taskVars, Linked
  <2>10. CASE VoidDisable(o)
    BY <2>10, ProvisioningAssumption
       DEF VoidDisable, OrphanInv, NoOrphanAccount, TakenInv, Working, IInv, TypeOK, Service, Task,
         TaskInv, orderVars, panelVars, taskVars, Mirrors, Linked
  <2>11. CASE VoidDelete(o)
    BY <2>11, ProvisioningAssumption
       DEF VoidDelete, OrphanInv, NoOrphanAccount, TakenInv, Working, IInv, TypeOK, Service, Task,
         TaskInv, orderVars, panelVars, taskVars
  <2> QED BY <1>2, <2>1, <2>2, <2>3, <2>4, <2>5, <2>6, <2>7, <2>8, <2>9, <2>10, <2>11 DEF OrderStep
<1>3. ASSUME NEW i \in Row, SyncAll(i) \/ Refresh(i) PROVE OrphanInv'
  BY <1>3, ProvisioningAssumption DEF OrphanInv, NoOrphanAccount, TakenInv, Working, IInv, TypeOK, Service, Task, TaskInv,
     SyncAll, Refresh, Sync, Mirrors, orderVars, panelVars, taskVars
<1>4. ASSUME NEW n \in Name, ForeignTakes(n) PROVE OrphanInv'
  BY <1>4, ProvisioningAssumption DEF OrphanInv, NoOrphanAccount, TakenInv, Working, IInv, TypeOK, Service, Task, TaskInv,
     ForeignTakes, orderVars, taskVars
<1>5. CASE PanelGoesDown \/ PanelComesUp \/ UNCHANGED vars
  BY <1>5 DEF OrphanInv, NoOrphanAccount, TakenInv, Working, PanelGoesDown, PanelComesUp,
     vars, orderVars, panelVars, taskVars
<1> QED BY <1>1, <1>2, <1>3, <1>4, <1>5 DEF Next

(* Every account we made keeps its service row, under its name, whatever   *)
(* crashes, lost replies and name races the tasks go through.              *)
THEOREM ProvisioningNoOrphan ==
  ASSUME ~StaffRename, VoidActions = {}
  PROVE  Spec => []NoOrphanAccount
<1>1. Init => OrphanInv
  BY ProvisioningAssumption DEF Init, OrphanInv, NoOrphanAccount, TakenInv, Working
<1>2. IInv /\ OrphanInv /\ [Next]_vars => OrphanInv'
  BY StepOrphan
<1>3. OrphanInv => NoOrphanAccount
  BY DEF OrphanInv
<1> QED BY <1>1, <1>2, <1>3, ProvisioningInvariant, PTL DEF Spec
=============================================================================
