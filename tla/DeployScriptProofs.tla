------------------------- MODULE DeployScriptProofs -------------------------
(***************************************************************************)
(* Proofs about the deployment machine, for every set of tasks, networks   *)
(* and configurations, every number of starts and of faults.               *)
(*                                                                         *)
(* The inductive invariant adds to the types and to ProxySlotsOwned what   *)
(* an upgrade needs: an address that holds an implementation is never a    *)
(* provider.  Every provider belongs to the deployer, who is an account    *)
(* and not a provider, and a provider upgrades only what it administers    *)
(* itself.                                                                 *)
(***************************************************************************)
EXTENDS DeployScript, SequenceTheorems, TLAPS

(* The process, the values it handles, the chain.                          *)
ProcOK ==
    /\ network \in Networks
    /\ stage \in 0..Len(Migration) /\ pc \in 1..(Len(Code) + 1)
    /\ tries \in 0..Attempts
    /\ lost \subseteq {Migration[t].task : t \in DOMAIN Migration}
    /\ outcome \in {"idle", "running", "crashed", "aborted", "finished"}
    /\ runs \in 0..MaxRuns /\ faults \in 0..MaxFaults

ValuesOK == db \in [Ids -> Nat] /\ regs \in [Regs -> Nat]

FactsOK == facts \subseteq [at : Nat, what : FactNames, of : Nat]

ChainOK ==
    /\ chain \in Seq(Contract) /\ pending \in Seq(Contract) /\ Len(pending) \in 0..1
    /\ book \in [Providers -> [Slots -> Nat]]

(* The deployer's account is there and stays an account.                   *)
DeployerOK == Deployer \in Addresses /\ chain[Deployer].kind # "LendPoolAddressesProvider"

(* Whoever creates a provider is the deployer.                             *)
OwnersOK ==
    /\ \A p \in Providers : chain[p].admin = Deployer
    /\ \A i \in DOMAIN pending : IsProvider(pending[i]) => pending[i].admin = Deployer

ChainInv == FactsOK /\ ChainOK /\ DeployerOK /\ OwnersOK /\ ProxySlotsOwned

DeployInv == ProcOK /\ ValuesOK /\ ChainInv

\* The invariant types every variable.
LEMMA InvGivesTypes == DeployInv => DeployTypeOK
BY DEF DeployInv, ChainInv, ProcOK, ValuesOK, FactsOK, ChainOK, DeployTypeOK

-----------------------------------------------------------------------------
(* The step of the task.                                                   *)

\* The migration of a network is a sequence of tasks.
LEMMA MigrationIsTasks == network \in Networks => Migration \in Seq(TaskRecord)
BY DeployAssumption DEF Migration

\* The step the process is at is one of the migration's steps.
LEMMA CurrentStep ==
  ASSUME ProcOK, ~AtEnd
  PROVE  /\ stage \in DOMAIN Migration
         /\ Migration \in Seq(TaskRecord)
         /\ pc \in 1..Len(Code) /\ Len(Code) \in Nat
         /\ Current \in StepRecord
         /\ Current \in StepsAnywhere
<1>1. Migration \in Seq(TaskRecord) /\ network \in Networks BY MigrationIsTasks DEF ProcOK
<1>2. stage # 0
  <2>1. stage = 0 => Code = <<>> BY DEF Code
  <2>2. stage = 0 => pc \in 1..1 BY <2>1 DEF ProcOK
  <2> QED BY <2>1, <2>2 DEF AtEnd
<1>3. stage \in DOMAIN Migration BY <1>1, <1>2 DEF ProcOK
<1>4. Migration[stage] \in TaskRecord BY <1>1, <1>3
<1>5. Code = Migration[stage].code BY <1>2 DEF Code
<1>6. Code \in Seq(StepRecord) BY <1>4, <1>5 DEF TaskRecord
<1>7. Len(Code) \in Nat /\ DOMAIN Code = 1..Len(Code) BY <1>6
<1>8. pc \in 1..Len(Code) BY <1>7 DEF ProcOK, AtEnd
<1>9. Current \in StepRecord BY <1>6, <1>8 DEF Current
<1>10. Current \in StepsAnywhere
  <2>1. Current \in StepsOf(Migration[stage]) BY <1>5, <1>7, <1>8 DEF Current, StepsOf
  <2>2. StepsOf(Migration[stage]) \in {StepsOf(Migrations[network][t]) : t \in DOMAIN Migrations[network]}
    BY <1>3 DEF Migration
  <2>3. Current \in StepsOn(network) BY <2>1, <2>2 DEF StepsOn
  <2> QED BY <1>1, <2>3 DEF StepsAnywhere
<1> QED BY <1>1, <1>3, <1>7, <1>8, <1>9, <1>10

\* What a step is given is of the right kind.
LEMMA StepArguments ==
  ASSUME ProcOK, ValuesOK, ~AtEnd
  PROVE  /\ Current.r \in Regs /\ Current.a \in Regs /\ Current.x \in STRING
         /\ Current.op \in {"load", "put", "save"} => Current.x \in Ids
         /\ Current.op \in {"set", "get", "setProxy"} => Current.x \in Slots
         /\ Reg(Current.r) \in Nat /\ Reg(Current.a) \in Nat
<1>1. Current \in StepRecord /\ Current \in StepsAnywhere BY CurrentStep
<1>2. Current.r \in Regs /\ Current.a \in Regs /\ Current.x \in STRING
  BY <1>1 DEF StepRecord
<1>3. /\ Current.op \in {"load", "put", "save"} => Current.x \in Ids
      /\ Current.op \in {"set", "get", "setProxy"} => Current.x \in Slots
  BY <1>1, DeployAssumption
<1>4. Reg(Current.r) \in Nat /\ Reg(Current.a) \in Nat BY <1>2 DEF Reg, ValuesOK
<1> QED BY <1>2, <1>3, <1>4

\* The registers the machine itself names hold numbers.
LEMMA NamedRegisters ==
  ASSUME ValuesOK
  PROVE  /\ Reg("impl") \in Nat /\ Reg("admin") \in Nat /\ Reg("strategy") \in Nat
         /\ Provider \in Nat
BY DeployAssumption DEF ValuesOK, Reg, Provider

-----------------------------------------------------------------------------
(* The process. *)

\* Going to the next statement.
LEMMA AdvanceOK ==
  ASSUME ProcOK, ~AtEnd, Advance, UNCHANGED <<network, runs, faults>>
  PROVE  ProcOK'
<1>1. Migration' = Migration BY DEF Migration
<1>2. Code' = Code BY <1>1 DEF Code, Advance
<1>3. pc \in 1..Len(Code) /\ Len(Code) \in Nat BY CurrentStep
<1> QED BY <1>1, <1>2, <1>3 DEF ProcOK, Advance

\* An error, caught or not.
LEMMA RaiseOK ==
  ASSUME ProcOK, ~AtEnd, Raise, UNCHANGED <<network, runs>>, faults' \in 0..MaxFaults
  PROVE  ProcOK'
<1>1. Migration' = Migration BY DEF Migration
<1>2. Code' = Code BY <1>1 DEF Code, Raise
<1>3. Len(Code) \in Nat /\ stage \in DOMAIN Migration BY CurrentStep
<1>4. tries' \in 0..Attempts BY DeployAssumption DEF Raise
<1>5. stage' \in 0..Len(Migration') BY <1>1 DEF ProcOK, Raise
<1>6. CASE Migration[stage].catches
  <2>1. /\ lost' = lost \union {TaskName} /\ pc' = Len(Code) + 1 /\ outcome' = outcome
    BY <1>6 DEF Raise
  <2>2. lost' \subseteq {Migration[t].task : t \in DOMAIN Migration}
    BY <1>3, <2>1 DEF TaskName, ProcOK
  <2>3. pc' \in 1..(Len(Code') + 1) BY <1>2, <1>3, <2>1
  <2> QED BY <1>1, <1>2, <1>4, <1>5, <2>1, <2>2, <2>3 DEF ProcOK
<1>7. CASE ~Migration[stage].catches
  <2>1. lost' = lost /\ pc' = pc /\ outcome' = "aborted" BY <1>7 DEF Raise
  <2> QED BY <1>1, <1>2, <1>4, <1>5, <2>1 DEF ProcOK
<1> QED BY <1>6, <1>7

-----------------------------------------------------------------------------
(* The chain. *)

\* Addresses are numbered from 1, and the next one is free.
LEMMA AddressesOK ==
  ASSUME ChainOK
  PROVE  /\ Len(chain) \in Nat /\ Addresses = 1..Len(chain)
         /\ NextAddress \in Nat /\ NextAddress # Nobody /\ NextAddress \notin Addresses
         /\ \A a \in Addresses : chain[a] \in Contract
         /\ Providers \subseteq Addresses
         /\ DOMAIN book = Providers
BY DEF ChainOK, Addresses, NextAddress, Nobody, Providers

\* No provider is the deployer.
LEMMA DeployerNoProvider == ChainInv => Deployer \notin Providers
BY DEF ChainInv, DeployerOK, Providers, IsProvider

\* Nothing changes on the chain.
LEMMA ChainStays ==
  ASSUME ChainInv, UNCHANGED <<chain, pending, book, facts>>
  PROVE  ChainInv'
BY DEF ChainInv, FactsOK, ChainOK, DeployerOK, OwnersOK, ProxySlotsOwned, Providers, Addresses, IsProvider

\* A creation that is never mined leaves no trace.
LEMMA PendingDropped ==
  ASSUME ChainInv, pending' = <<>>, UNCHANGED <<chain, book, facts>>
  PROVE  ChainInv'
<1>1. pending' \in Seq(Contract) /\ Len(pending') \in 0..1 /\ DOMAIN pending' = {} OBVIOUS
<1>2. Addresses' = Addresses /\ Providers' = Providers BY DEF Addresses, Providers, IsProvider
<1> QED BY <1>1, <1>2 DEF ChainInv, FactsOK, ChainOK, DeployerOK, OwnersOK, ProxySlotsOwned

\* A creation is sent.
LEMMA PendingSent ==
  ASSUME ChainInv, NEW c \in Contract, IsProvider(c) => c.admin = Deployer,
         pending' = <<c>>, UNCHANGED <<chain, book, facts>>
  PROVE  ChainInv'
<1>1. pending' \in Seq(Contract) /\ Len(pending') \in 0..1 /\ DOMAIN pending' = {1} /\ pending'[1] = c
  OBVIOUS
<1>2. Addresses' = Addresses /\ Providers' = Providers BY DEF Addresses, Providers, IsProvider
<1>3. \A i \in DOMAIN pending' : IsProvider(pending'[i]) => pending'[i].admin = Deployer BY <1>1
<1>4. OwnersOK' BY <1>2, <1>3 DEF ChainInv, OwnersOK
<1> QED BY <1>1, <1>2, <1>4 DEF ChainInv, FactsOK, ChainOK, DeployerOK, ProxySlotsOwned

\* What the pool of a provider is, as a number.
LEMMA SlotOfNat ==
  ASSUME ChainOK, NEW p, NEW s \in Slots
  PROVE  SlotOf(p, s) \in Nat
<1>1. CASE p \in DOMAIN book
  <2>1. book[p] \in [Slots -> Nat] BY <1>1 DEF ChainOK
  <2> QED BY <1>1, <2>1 DEF SlotOf
<1>2. CASE p \notin DOMAIN book BY <1>2 DEF SlotOf, Nobody
<1> QED BY <1>1, <1>2

\* A slot set as a proxy is a slot, and never set by hand.
LEMMA ProxiedSlotsFixed ==
  /\ ProxiedSlots \subseteq Slots
  /\ \A s \in StepsAnywhere : s.op = "set" => s.x \notin ProxiedSlots
<1>1. \A x \in ProxiedSlots : \E s \in StepsAnywhere : s.op = "setProxy" /\ s.x = x
  BY DEF ProxiedSlots, Of
<1>2. ProxiedSlots \subseteq Slots BY <1>1, DeployAssumption
<1>3. \A s \in StepsAnywhere : s.op = "set" => s.x \in Of(StepsAnywhere, "set") BY DEF Of
<1> QED BY <1>2, <1>3 DEF ProxiedSlots

\* A setting is a record of two addresses and a name.
LEMMA FactTyped ==
  ASSUME NEW a \in Nat, NEW w \in FactNames, NEW b \in Nat
  PROVE  Fact(a, w, b) \in [at : Nat, what : FactNames, of : Nat]
BY DEF Fact

\* What a constructor stores is typed.
LEMMA InitializedTyped ==
  ASSUME ChainOK, NEW place \in Nat, NEW c \in Contract
  PROVE  Initialized(place, c) \subseteq [at : Nat, what : FactNames, of : Nat]
<1> DEFINE pool == PoolOf(c)
           giver == c.of
<1>1. pool \in Nat BY SlotOfNat, DeployAssumption DEF PoolOf
<1>2. giver \in Nat BY DEF Contract
<1>3. Initialized(place, c) \subseteq {Fact(place, "pool", pool), Fact(place, "priceManager", giver)}
  BY DEF Initialized
<1> HIDE DEF pool, giver
<1>4. "pool" \in FactNames /\ "priceManager" \in FactNames BY DEF FactNames
<1>5. Fact(place, "pool", pool) \in [at : Nat, what : FactNames, of : Nat]
  BY <1>1, <1>4, FactTyped, Zenon
<1>6. Fact(place, "priceManager", giver) \in [at : Nat, what : FactNames, of : Nat]
  BY <1>2, <1>4, FactTyped, Zenon
<1> QED BY <1>3, <1>5, <1>6

\* The creation that was sent is mined.
LEMMA MineOK ==
  ASSUME ChainInv, Mine
  PROVE  ChainInv'
<1> DEFINE created == {pending[i] : i \in DOMAIN pending}
           providers == {c \in created : IsProvider(c)}
<1>1. /\ ChainOK /\ FactsOK /\ DeployerOK /\ OwnersOK /\ ProxySlotsOwned
      /\ pending \in Seq(Contract) /\ chain \in Seq(Contract)
      /\ Len(pending) = 0 \/ Len(pending) = 1
  BY DEF ChainInv, ChainOK
<1>2. /\ chain' = chain \o pending
      /\ pending' = <<>>
      /\ book' = IF providers = {} THEN book
                 ELSE [p \in DOMAIN book \union {NextAddress} |->
                         IF p \in DOMAIN book THEN book[p] ELSE NoSlots]
      /\ facts' = facts \union UNION {Initialized(NextAddress, c) : c \in created}
  BY DEF Mine
<1>3. /\ chain' \in Seq(Contract)
      /\ Len(chain') = Len(chain) + Len(pending)
      /\ \A a \in Addresses : a \in Addresses' /\ chain'[a] = chain[a]
      /\ Addresses' = IF Len(pending) = 0 THEN Addresses ELSE Addresses \union {NextAddress}
      /\ Len(pending) = 1 => chain'[NextAddress] = pending[1]
  <2>1. /\ chain' \in Seq(Contract)
        /\ Len(chain') = Len(chain) + Len(pending)
        /\ \A i \in 1..(Len(chain) + Len(pending)) :
             chain'[i] = IF i <= Len(chain) THEN chain[i] ELSE pending[i - Len(chain)]
    BY <1>1, <1>2, ConcatProperties
  <2>2. /\ Addresses = 1..Len(chain) /\ Addresses' = 1..(Len(chain) + Len(pending))
        /\ Len(chain) \in Nat
    BY <1>1, <2>1 DEF Addresses
  <2>3. \A a \in Addresses : a \in Addresses' /\ chain'[a] = chain[a] BY <1>1, <2>1, <2>2
  <2>4. Addresses' = IF Len(pending) = 0 THEN Addresses ELSE Addresses \union {NextAddress}
    <3>1. CASE Len(pending) = 0 BY <3>1, <2>2
    <3>2. CASE Len(pending) = 1
      <4>1. Addresses' = 1..(Len(chain) + 1) BY <3>2, <2>2
      <4>2. 1..(Len(chain) + 1) = 1..Len(chain) \union {Len(chain) + 1} BY <2>2
      <4> QED BY <3>2, <4>1, <4>2, <2>2 DEF NextAddress
    <3> QED BY <1>1, <3>1, <3>2
  <2>5. Len(pending) = 1 => chain'[NextAddress] = pending[1] BY <2>1, <2>2 DEF NextAddress
  <2> QED BY <2>1, <2>3, <2>4, <2>5
<1>4. created \subseteq Contract /\ (Len(pending) = 0 => created = {}) /\ (Len(pending) = 1 => created = {pending[1]})
  BY <1>1
<1>5. FactsOK'
  <2>1. \A c \in created : Initialized(NextAddress, c) \subseteq [at : Nat, what : FactNames, of : Nat]
    BY <1>1, <1>4, InitializedTyped, AddressesOK
  <2> QED BY <1>1, <1>2, <2>1 DEF FactsOK
<1>6. pending' \in Seq(Contract) /\ Len(pending') \in 0..1 /\ DOMAIN pending' = {} BY <1>2
<1>7. DeployerOK' BY <1>1, <1>3 DEF DeployerOK
<1>8. CASE providers = {}
  <2>1. Len(pending) = 1 => ~IsProvider(pending[1]) BY <1>4, <1>8
  <2>2. Providers' = Providers BY <1>3, <2>1, <1>1 DEF Providers, IsProvider
  <2>3. ChainOK' BY <1>1, <1>2, <1>3, <1>6, <1>8, <2>2 DEF ChainOK
  <2>4. OwnersOK' BY <1>1, <1>3, <1>6, <2>2, AddressesOK DEF OwnersOK
  <2>5. ProxySlotsOwned'
    BY <1>1, <1>2, <1>3, <1>8, <2>2, AddressesOK DEF ProxySlotsOwned
  <2> QED BY <1>5, <1>7, <2>3, <2>4, <2>5 DEF ChainInv
<1>9. CASE providers # {}
  <2>1. Len(pending) = 1 /\ IsProvider(pending[1]) BY <1>1, <1>4, <1>9
  <2>2. Providers' = Providers \union {NextAddress}
    BY <1>3, <2>1, <1>1 DEF Providers, IsProvider
  <2>3. DOMAIN book = Providers /\ book \in [Providers -> [Slots -> Nat]] BY <1>1 DEF ChainOK
  <2>4. NoSlots \in [Slots -> Nat] BY DEF NoSlots, Nobody
  <2>5. book' = [p \in Providers' |-> IF p \in Providers THEN book[p] ELSE NoSlots]
    BY <1>2, <1>9, <2>2, <2>3
  <2>6. book' \in [Providers' -> [Slots -> Nat]] BY <2>3, <2>4, <2>5
  <2>7. ChainOK' BY <1>3, <1>6, <2>6 DEF ChainOK
  <2>8. OwnersOK'
    <3>1. pending[1].admin = Deployer BY <1>1, <2>1 DEF OwnersOK
    <3>2. \A p \in Providers' : chain'[p].admin = Deployer
      BY <1>1, <1>3, <2>1, <2>2, <3>1, AddressesOK DEF OwnersOK
    <3> QED BY <1>6, <3>2 DEF OwnersOK
  <2>9. ProxySlotsOwned'
    <3> SUFFICES ASSUME NEW p \in Providers', NEW s \in ProxiedSlots, book'[p][s] # Nobody
                 PROVE  /\ book'[p][s] \in Addresses'
                        /\ chain'[book'[p][s]].impl # Nobody
                        /\ chain'[book'[p][s]].admin = p /\ chain'[book'[p][s]].of = p
      BY DEF ProxySlotsOwned
    <3>1. p \in Providers /\ book'[p] = book[p]
      BY <2>2, <2>5, ProxiedSlotsFixed DEF NoSlots
    <3>2. /\ book[p][s] \in Addresses /\ chain[book[p][s]].impl # Nobody
          /\ chain[book[p][s]].admin = p /\ chain[book[p][s]].of = p
      BY <1>1, <3>1 DEF ProxySlotsOwned
    <3> QED BY <1>3, <3>1, <3>2
  <2> QED BY <1>5, <1>7, <2>7, <2>8, <2>9 DEF ChainInv
<1> QED BY <1>8, <1>9

\* A step that is executed has a statement to execute.
LEMMA DoingStep ==
  ASSUME DeployInv, NEW op, Doing(op)
  PROVE  /\ ~AtEnd /\ ProcOK /\ ValuesOK /\ ChainInv /\ ChainOK
         /\ Current \in StepsAnywhere /\ Current.op = op
         /\ Current.r \in Regs /\ Current.a \in Regs /\ Current.x \in STRING
         /\ op \in {"load", "put", "save"} => Current.x \in Ids
         /\ op \in {"set", "get", "setProxy"} => Current.x \in Slots
         /\ Reg(Current.r) \in Nat /\ Reg(Current.a) \in Nat
<1>1. ~AtEnd /\ ProcOK /\ ValuesOK /\ ChainInv /\ ChainOK /\ Current.op = op
  BY DEF Doing, DeployInv, ChainInv
<1>2. Current \in StepsAnywhere BY <1>1, CurrentStep
<1> QED BY <1>1, <1>2, StepArguments

\* Whatever is sent from a task belongs to the deployer.
LEMMA SendChain ==
  ASSUME DeployInv, Send
  PROVE  ChainInv'
<1> DEFINE c == [kind |-> Current.x, impl |-> Nobody, admin |-> Deployer, of |-> Reg(Current.a)]
<1>1. ChainInv /\ Current.x \in STRING /\ Reg(Current.a) \in Nat BY DoingStep DEF Send
<1>2. Deployer \in Nat BY <1>1, AddressesOK DEF ChainInv, DeployerOK
<1>3. c \in Contract BY <1>1, <1>2 DEF Contract, Nobody
<1>4. IsProvider(c) => c.admin = Deployer OBVIOUS
<1>5. pending' = <<c>> /\ UNCHANGED <<chain, book, facts>> BY DEF Send
<1> HIDE DEF c
<1> QED BY <1>1, <1>3, <1>4, <1>5, PendingSent

\* A proxy has an implementation: it is no provider, whatever is behind it.
LEMMA SendProxyChain ==
  ASSUME DeployInv, SendProxy
  PROVE  ChainInv'
<1> DEFINE impl == Reg("impl")
           c == [kind |-> chain[impl].kind, impl |-> impl,
                 admin |-> Reg("admin"), of |-> Reg(Current.a)]
<1>1. ChainInv /\ ChainOK /\ ValuesOK /\ Reg(Current.a) \in Nat BY DoingStep DEF SendProxy
<1>2. CASE impl \in Addresses
  <2>1. impl \in Nat /\ impl # Nobody /\ chain[impl] \in Contract BY <1>1, <1>2, AddressesOK DEF Nobody
  <2>2. chain[impl].kind \in STRING /\ Reg("admin") \in Nat BY <1>1, <2>1, NamedRegisters DEF Contract
  <2>3. c \in Contract BY <1>1, <2>1, <2>2 DEF Contract
  <2>4. ~IsProvider(c) BY <2>1 DEF IsProvider
  <2>5. pending' = <<c>> /\ UNCHANGED <<chain, book, facts>> BY <1>2 DEF SendProxy
  <2> HIDE DEF c
  <2> QED BY <1>1, <2>3, <2>4, <2>5, PendingSent
<1>3. CASE impl \notin Addresses
  <2>1. UNCHANGED <<chain, pending, book, facts>> BY <1>3 DEF SendProxy
  <2> QED BY <1>1, <2>1, ChainStays
<1> QED BY <1>2, <1>3

\* An address that is no provider gets another implementation.
LEMMA ImplementationChanged ==
  ASSUME ChainInv, NEW a \in Addresses, a \notin Providers, NEW i \in Addresses,
         chain' = [chain EXCEPT ![a].impl = i], UNCHANGED <<pending, book, facts>>
  PROVE  ChainInv'
<1>1. /\ ChainOK /\ FactsOK /\ DeployerOK /\ OwnersOK /\ ProxySlotsOwned
      /\ chain \in Seq(Contract) /\ pending \in Seq(Contract)
  BY DEF ChainInv, ChainOK
<1>2. Addresses = 1..Len(chain) /\ Len(chain) \in Nat /\ chain[a] \in Contract BY <1>1, AddressesOK
<1>3. i \in Nat /\ i # Nobody BY <1>2 DEF Nobody
<1>4. chain' = [chain EXCEPT ![a] = [chain[a] EXCEPT !.impl = i]] OBVIOUS
<1>5. [chain[a] EXCEPT !.impl = i] \in Contract BY <1>2, <1>3 DEF Contract
<1>6. chain' \in Seq(Contract) /\ Addresses' = Addresses
  BY <1>1, <1>2, <1>4, <1>5 DEF Addresses
<1>7. \A b \in Addresses : b # a => chain'[b] = chain[b] BY <1>1, <1>4 DEF Addresses
<1>8. /\ chain'[a].kind = chain[a].kind /\ chain'[a].impl = i
      /\ chain'[a].admin = chain[a].admin /\ chain'[a].of = chain[a].of
  <2>1. chain'[a] = [chain[a] EXCEPT !.impl = i] BY <1>1, <1>4 DEF Addresses
  <2> QED BY <1>2, <2>1 DEF Contract
<1>9. Providers' = Providers
  <2>1. a \notin Providers' BY <1>3, <1>8 DEF Providers, IsProvider
  <2> QED BY <1>6, <1>7, <2>1 DEF Providers
<1>10. ChainOK' BY <1>1, <1>6, <1>9 DEF ChainOK
<1>11. DeployerOK' BY <1>1, <1>6, <1>7, <1>8 DEF DeployerOK
<1>12. OwnersOK' BY <1>1, <1>7, <1>9, AddressesOK DEF OwnersOK
<1>13. ProxySlotsOwned'
  <2> SUFFICES ASSUME NEW p \in Providers, NEW s \in ProxiedSlots, book[p][s] # Nobody
               PROVE  /\ book[p][s] \in Addresses
                      /\ chain'[book[p][s]].impl # Nobody
                      /\ chain'[book[p][s]].admin = p /\ chain'[book[p][s]].of = p
    BY <1>6, <1>9 DEF ProxySlotsOwned
  <2> DEFINE c == book[p][s]
  <2>1. c \in Addresses /\ chain[c].impl # Nobody /\ chain[c].admin = p /\ chain[c].of = p
    BY <1>1 DEF ProxySlotsOwned
  <2> HIDE DEF c
  <2>2. c \in Addresses /\ chain'[c].impl # Nobody /\ chain'[c].admin = p /\ chain'[c].of = p
    BY <2>1, <1>3, <1>7, <1>8
  <2> QED BY <2>2 DEF c
<1> QED BY <1>1, <1>10, <1>11, <1>12, <1>13 DEF ChainInv, FactsOK

\* One slot of one provider is set.
LEMMA BookChanged ==
  ASSUME ChainOK, NEW p \in Providers, NEW x \in Slots, NEW v \in Nat,
         book' = [book EXCEPT ![p][x] = v]
  PROVE  /\ book' \in [Providers -> [Slots -> Nat]]
         /\ \A q \in Providers, s \in Slots :
              book'[q][s] = IF q = p /\ s = x THEN v ELSE book[q][s]
<1>1. book \in [Providers -> [Slots -> Nat]] BY DEF ChainOK
<1>2. book' = [book EXCEPT ![p] = [book[p] EXCEPT ![x] = v]] OBVIOUS
<1>3. [book[p] EXCEPT ![x] = v] \in [Slots -> Nat] BY <1>1
<1>4. book' \in [Providers -> [Slots -> Nat]] BY <1>1, <1>2, <1>3
<1>5. \A q \in Providers : book'[q] = IF q = p THEN [book[p] EXCEPT ![x] = v] ELSE book[q]
  BY <1>1, <1>2
<1> QED BY <1>1, <1>4, <1>5

\* A slot that is set by hand is no slot of a proxy.
LEMMA SetSlotChain ==
  ASSUME DeployInv, SetSlot
  PROVE  ChainInv'
<1>1. /\ ChainInv /\ ChainOK /\ Current \in StepsAnywhere /\ Current.op = "set"
      /\ Current.x \in Slots /\ Reg(Current.r) \in Nat
  BY DoingStep DEF SetSlot
<1>2. UNCHANGED <<chain, pending, facts>> BY DEF SetSlot
<1>3. CASE HasProvider /\ (Current.x # "UIDataProvider" => Reg(Current.r) # Nobody)
  <2>1. book' = [book EXCEPT ![Provider][Current.x] = Reg(Current.r)] BY <1>3 DEF SetSlot
  <2>2. Provider \in Providers BY <1>1, <1>3, AddressesOK DEF HasProvider
  <2>3. /\ book' \in [Providers -> [Slots -> Nat]]
        /\ \A q \in Providers, s \in Slots :
             book'[q][s] = IF q = Provider /\ s = Current.x THEN Reg(Current.r) ELSE book[q][s]
    BY <1>1, <2>1, <2>2, BookChanged
  <2>4. Addresses' = Addresses /\ Providers' = Providers BY <1>2 DEF Addresses, Providers
  <2>5. ChainOK' BY <1>1, <1>2, <2>3, <2>4 DEF ChainOK
  <2>6. Current.x \notin ProxiedSlots BY <1>1, ProxiedSlotsFixed
  <2>7. \A q \in Providers, s \in ProxiedSlots : book'[q][s] = book[q][s]
    BY <2>3, <2>6, ProxiedSlotsFixed
  <2>8. ProxySlotsOwned' BY <1>1, <1>2, <2>4, <2>7 DEF ChainInv, ProxySlotsOwned
  <2>9. DeployerOK' /\ OwnersOK' /\ FactsOK'
    BY <1>1, <1>2, <2>4 DEF ChainInv, DeployerOK, OwnersOK, FactsOK
  <2> QED BY <2>5, <2>8, <2>9 DEF ChainInv
<1>4. CASE ~(HasProvider /\ (Current.x # "UIDataProvider" => Reg(Current.r) # Nobody))
  <2>1. UNCHANGED <<chain, pending, book, facts>> BY <1>2, <1>4 DEF SetSlot
  <2> QED BY <1>1, <2>1, ChainStays
<1> QED BY <1>3, <1>4

\* The provider makes a proxy, for itself and with itself as its admin.
LEMMA ProxyCreated ==
  ASSUME DeployInv, HasProvider, NEW slot \in Slots, NEW impl \in Addresses,
         chain' = Append(chain, NewProxy(impl)),
         book' = [book EXCEPT ![Provider][slot] = NextAddress],
         UNCHANGED <<pending, facts>>
  PROVE  ChainInv'
<1> DEFINE c == NewProxy(impl)
<1>1. /\ ChainInv /\ ChainOK /\ FactsOK /\ DeployerOK /\ OwnersOK /\ ProxySlotsOwned
      /\ chain \in Seq(Contract) /\ pending \in Seq(Contract) /\ ValuesOK
  BY DEF DeployInv, ChainInv, ChainOK
<1>2. /\ Addresses = 1..Len(chain) /\ Len(chain) \in Nat /\ chain[impl] \in Contract
      /\ NextAddress = Len(chain) + 1
      /\ NextAddress \notin Addresses /\ NextAddress \in Nat
  BY <1>1, AddressesOK DEF NextAddress
<1>3. Provider \in Providers /\ Provider \in Nat /\ impl \in Nat /\ impl # Nobody
  BY <1>1, <1>2, AddressesOK, NamedRegisters DEF HasProvider, Nobody
<1>4. /\ c \in Contract /\ c.impl = impl /\ c.admin = Provider /\ c.of = Provider
  BY <1>2, <1>3 DEF NewProxy, Contract
<1> HIDE DEF c
<1>5. /\ chain' \in Seq(Contract) /\ Len(chain') = Len(chain) + 1
      /\ \A i \in 1..Len(chain) : chain'[i] = chain[i]
      /\ chain'[Len(chain) + 1] = c
  <2>1. chain' = Append(chain, c) BY DEF c
  <2> QED BY <1>1, <1>4, <2>1, AppendProperties
<1>6. Addresses' = Addresses \union {NextAddress}
  <2>1. Addresses' = 1..(Len(chain) + 1) BY <1>5 DEF Addresses
  <2>2. 1..(Len(chain) + 1) = 1..Len(chain) \union {Len(chain) + 1} BY <1>2
  <2> QED BY <1>2, <2>1, <2>2
<1>7. ~IsProvider(c) BY <1>3, <1>4 DEF IsProvider
<1>8. \A a \in Addresses : a # NextAddress /\ chain'[a] = chain[a] BY <1>2, <1>5
<1>9. chain'[NextAddress] = c BY <1>2, <1>5
<1>10. Providers' = Providers
  <2>1. NextAddress \notin Providers' BY <1>7, <1>9 DEF Providers, IsProvider
  <2>2. \A a \in Addresses : a \in Providers' <=> a \in Providers
    BY <1>6, <1>8 DEF Providers, IsProvider
  <2>3. Providers' \subseteq Addresses' BY DEF Providers
  <2>4. Providers \subseteq Addresses BY DEF Providers
  <2> QED BY <1>6, <2>1, <2>2, <2>3, <2>4
<1>11. /\ book' \in [Providers -> [Slots -> Nat]]
       /\ \A q \in Providers, s \in Slots :
            book'[q][s] = IF q = Provider /\ s = slot THEN NextAddress ELSE book[q][s]
  <2> DEFINE row == [book[Provider] EXCEPT ![slot] = NextAddress]
  <2>1. book \in [Providers -> [Slots -> Nat]] BY <1>1 DEF ChainOK
  <2>2. book' = [book EXCEPT ![Provider] = row] OBVIOUS
  <2>3. book[Provider] \in [Slots -> Nat] BY <1>3, <2>1
  <2>4. /\ row \in [Slots -> Nat]
        /\ \A s \in Slots : row[s] = IF s = slot THEN NextAddress ELSE book[Provider][s]
    BY <1>2, <2>3
  <2> HIDE DEF row
  <2>5. book' \in [Providers -> [Slots -> Nat]] BY <2>1, <2>2, <2>4
  <2>6. \A q \in Providers : book'[q] = IF q = Provider THEN row ELSE book[q] BY <2>1, <2>2
  <2> QED BY <2>4, <2>5, <2>6
<1>12. ChainOK' BY <1>1, <1>5, <1>10, <1>11 DEF ChainOK
<1>13. DeployerOK' BY <1>1, <1>6, <1>8 DEF DeployerOK
<1>14. OwnersOK' BY <1>1, <1>8, <1>10, AddressesOK DEF OwnersOK
<1>15. ProxySlotsOwned'
  <2> SUFFICES ASSUME NEW p \in Providers, NEW s \in ProxiedSlots, book'[p][s] # Nobody
               PROVE  /\ book'[p][s] \in Addresses'
                      /\ chain'[book'[p][s]].impl # Nobody
                      /\ chain'[book'[p][s]].admin = p /\ chain'[book'[p][s]].of = p
    BY <1>10 DEF ProxySlotsOwned
  <2>1. s \in Slots BY ProxiedSlotsFixed
  <2>2. CASE p = Provider /\ s = slot
    <3>1. book'[p][s] = NextAddress BY <1>11, <2>1, <2>2
    <3>2. NextAddress \in Addresses' BY <1>6
    <3>3. /\ chain'[NextAddress].impl # Nobody
          /\ chain'[NextAddress].admin = p /\ chain'[NextAddress].of = p
      BY <1>3, <1>4, <1>9, <2>2
    <3> QED BY <3>1, <3>2, <3>3
  <2>3. CASE ~(p = Provider /\ s = slot)
    <3>1. book'[p][s] = book[p][s] BY <1>11, <2>1, <2>3
    <3>2. /\ book[p][s] \in Addresses /\ chain[book[p][s]].impl # Nobody
          /\ chain[book[p][s]].admin = p /\ chain[book[p][s]].of = p
      BY <1>1, <3>1 DEF ProxySlotsOwned
    <3>3. book[p][s] \in Addresses' /\ chain'[book[p][s]] = chain[book[p][s]]
      BY <1>6, <1>8, <3>2
    <3> QED BY <3>1, <3>2, <3>3
  <2> QED BY <2>2, <2>3
<1> QED BY <1>1, <1>12, <1>13, <1>14, <1>15 DEF ChainInv, FactsOK

\* Whoever a provider may upgrade, it is no provider: those are the deployer's.
LEMMA UpgradesNoProvider ==
  ASSUME ChainInv, NEW a \in Addresses, chain[a].admin \in Providers
  PROVE  a \notin Providers
BY DeployerNoProvider DEF ChainInv, OwnersOK

\* _updateImpl makes a proxy or upgrades the one it made.
LEMMA SetProxyChain ==
  ASSUME DeployInv, SetProxy
  PROVE  ChainInv'
<1> DEFINE impl == Reg(Current.r)
           old == Standing(Current.x)
           can == HasProvider /\ impl \in Addresses /\ (old # Nobody => chain[old].admin = Provider)
<1>1. ChainInv /\ ChainOK /\ chain \in Seq(Contract) /\ Current.x \in Slots
  BY DoingStep DEF SetProxy, ChainOK
<1>2. UNCHANGED <<pending, facts>> BY DEF SetProxy
<1>3. CASE ~can
  <2>1. UNCHANGED <<chain, book>> BY <1>3 DEF SetProxy
  <2> QED BY <1>1, <1>2, <2>1, ChainStays
<1>4. CASE can /\ old = Nobody
  <2>1. /\ chain' = Append(chain, NewProxy(impl))
        /\ book' = [book EXCEPT ![Provider][Current.x] = NextAddress]
    BY <1>4 DEF SetProxy
  <2>2. HasProvider /\ impl \in Addresses BY <1>4
  <2> HIDE DEF impl, can, old
  <2> QED BY <1>1, <1>2, <2>1, <2>2, ProxyCreated
<1>5. CASE can /\ old # Nobody
  <2>1. chain' = [chain EXCEPT ![old].impl = impl] /\ UNCHANGED book BY <1>5 DEF SetProxy
  <2>2. Provider \in Providers /\ impl \in Addresses /\ chain[old].admin = Provider
    BY <1>1, <1>5, AddressesOK DEF HasProvider
  <2> HIDE DEF impl, can, old
  <2>3. CASE old \in Addresses
    <3>1. old \notin Providers BY <1>1, <2>2, <2>3, UpgradesNoProvider
    <3> QED BY <1>1, <1>2, <2>1, <2>2, <2>3, <3>1, ImplementationChanged
  <2>4. CASE old \notin Addresses
    <3>1. chain' = chain BY <1>1, <2>1, <2>4 DEF Addresses
    <3> QED BY <1>1, <1>2, <2>1, <3>1, ChainStays
  <2> QED BY <2>3, <2>4
<1> QED BY <1>3, <1>4, <1>5

\* The admin of a proxy upgrades it; a provider is no proxy.
LEMMA UpgradeChain ==
  ASSUME DeployInv, Upgrade
  PROVE  ChainInv'
<1> DEFINE proxy == Reg(Current.r)
           impl == Reg("impl")
           can == /\ proxy \in Addresses /\ impl \in Addresses
                  /\ chain[proxy].impl # Nobody /\ chain[proxy].admin = Reg("admin")
<1>1. ChainInv BY DoingStep DEF Upgrade
<1>2. UNCHANGED <<pending, book, facts>> BY DEF Upgrade
<1>3. CASE can
  <2>1. chain' = [chain EXCEPT ![proxy].impl = impl] BY <1>3 DEF Upgrade
  <2>2. proxy \notin Providers BY <1>3 DEF Providers, IsProvider
  <2>3. proxy \in Addresses /\ impl \in Addresses BY <1>3
  <2> HIDE DEF proxy, impl, can
  <2> QED BY <1>1, <1>2, <2>1, <2>2, <2>3, ImplementationChanged
<1>4. CASE ~can
  <2>1. chain' = chain BY <1>4 DEF Upgrade
  <2> QED BY <1>1, <1>2, <2>1, ChainStays
<1> QED BY <1>3, <1>4

\* What a call stores is typed.
LEMMA StoredTyped ==
  ASSUME ChainInv, ValuesOK, NEW what \in FactNames, NEW c \in Addresses, NEW arg \in Nat
  PROVE  Stored(what, c, arg) \subseteq [at : Nat, what : FactNames, of : Nat]
<1> DEFINE pool == PoolOf(chain[c])
           rate == Reg("strategy")
<1>1. /\ facts \subseteq [at : Nat, what : FactNames, of : Nat]
      /\ pool \in Nat /\ rate \in Nat /\ c \in Nat
  <2>1. ChainOK /\ FactsOK BY DEF ChainInv
  <2>2. pool \in Nat BY <2>1, SlotOfNat, DeployAssumption DEF PoolOf
  <2> QED BY <2>1, <2>2, AddressesOK, NamedRegisters DEF FactsOK
<1> HIDE DEF pool, rate
<1>2. "pool" \in FactNames /\ "rate" \in FactNames BY DEF FactNames
<1>3. /\ Fact(pool, what, arg) \in [at : Nat, what : FactNames, of : Nat]
      /\ Fact(pool, "rate", rate) \in [at : Nat, what : FactNames, of : Nat]
      /\ Fact(c, what, arg) \in [at : Nat, what : FactNames, of : Nat]
      /\ Fact(c, "pool", pool) \in [at : Nat, what : FactNames, of : Nat]
  <2>1. Fact(pool, what, arg) \in [at : Nat, what : FactNames, of : Nat]
    BY <1>1, FactTyped, Zenon
  <2>2. Fact(pool, "rate", rate) \in [at : Nat, what : FactNames, of : Nat]
    BY <1>1, <1>2, FactTyped, Zenon
  <2>3. Fact(c, what, arg) \in [at : Nat, what : FactNames, of : Nat]
    BY <1>1, FactTyped, Zenon
  <2>4. Fact(c, "pool", pool) \in [at : Nat, what : FactNames, of : Nat]
    BY <1>1, <1>2, FactTyped, Zenon
  <2> QED BY <2>1, <2>2, <2>3, <2>4
<1>4. Stored(what, c, arg) \subseteq
        facts \union {Fact(pool, what, arg), Fact(pool, "rate", rate),
                      Fact(c, what, arg), Fact(c, "pool", pool)}
  BY DEF Stored, pool, rate, PoolSettings, PoolAdminSettings
<1> QED BY <1>1, <1>3, <1>4

\* A call changes settings and nothing else.
LEMMA CallChain ==
  ASSUME DeployInv, Call
  PROVE  ChainInv'
<1> DEFINE c == Reg(Current.r)
           arg == Reg(Current.a)
<1>1. PICK op \in {"call", "post"} : Doing(op) BY DEF Call
<1>2. ChainInv /\ ChainOK /\ ValuesOK /\ Current \in StepsAnywhere /\ c \in Nat /\ arg \in Nat
  BY <1>1, DoingStep
<1>3. UNCHANGED <<chain, pending, book>> BY DEF Call
<1>4. facts' = facts \/ (c \in Addresses /\ facts' = Stored(Current.x, c, arg)) BY DEF Call
<1>5. CASE facts' = facts BY <1>2, <1>3, <1>5, ChainStays
<1>6. CASE c \in Addresses /\ facts' = Stored(Current.x, c, arg)
  <2>1. Current.x \in FactNames BY <1>2 DEF FactNames
  <2> HIDE DEF c, arg
  <2>2. FactsOK' BY <1>2, <1>6, <2>1, StoredTyped DEF FactsOK
  <2>3. Addresses' = Addresses /\ Providers' = Providers BY <1>3 DEF Addresses, Providers
  <2> QED BY <1>2, <1>3, <2>2, <2>3 DEF ChainInv, ChainOK, DeployerOK, OwnersOK, ProxySlotsOwned
<1> QED BY <1>4, <1>5, <1>6

-----------------------------------------------------------------------------
(* One step of the process. *)

Statement ==
    \/ SkipStep \/ Configured \/ Load \/ Need \/ Put \/ Send \/ SendProxy \/ Save
    \/ SetProxy \/ SetSlot \/ GetSlot \/ Upgrade \/ Call

\* A statement is executed or throws.
LEMMA StatementMoves ==
  ASSUME Statement
  PROVE  ~AtEnd /\ (Advance \/ Raise) /\ UNCHANGED counters
<1>1. CASE SkipStep BY <1>1 DEF SkipStep, Doing
<1>2. CASE Configured BY <1>2 DEF Configured, Doing
<1>3. CASE Load BY <1>3 DEF Load, Doing
<1>4. CASE Need BY <1>4 DEF Need, Doing
<1>5. CASE Put BY <1>5 DEF Put, Doing
<1>6. CASE Send BY <1>6 DEF Send, Doing
<1>7. CASE SendProxy BY <1>7 DEF SendProxy, Doing
<1>8. CASE Save BY <1>8 DEF Save, Doing
<1>9. CASE SetProxy BY <1>9 DEF SetProxy, Doing
<1>10. CASE SetSlot BY <1>10 DEF SetSlot, Doing
<1>11. CASE GetSlot BY <1>11 DEF GetSlot, Doing
<1>12. CASE Upgrade BY <1>12 DEF Upgrade, Doing
<1>13. CASE Call BY <1>13 DEF Call, Doing
<1> QED BY <1>1, <1>2, <1>3, <1>4, <1>5, <1>6, <1>7, <1>8, <1>9, <1>10, <1>11, <1>12, <1>13 DEF Statement

\* The process stays where it can be.
LEMMA WorkProc ==
  ASSUME DeployInv, Work
  PROVE  ProcOK'
<1>1. ProcOK /\ network' = network BY DEF DeployInv, Work
<1>2. CASE Statement
  <2>1. ~AtEnd /\ (Advance \/ Raise) /\ UNCHANGED <<runs, faults>>
    BY <1>2, StatementMoves DEF counters
  <2>2. faults' \in 0..MaxFaults BY <1>1, <2>1 DEF ProcOK
  <2> QED BY <1>1, <2>1, <2>2, AdvanceOK, RaiseOK
<1>3. CASE VerifyEtherscanContract
  <2>1. ~AtEnd /\ UNCHANGED <<runs, faults>> BY <1>3 DEF VerifyEtherscanContract, Doing, counters
  <2>2. faults' \in 0..MaxFaults BY <1>1, <2>1 DEF ProcOK
  <2>3. CASE Raise BY <1>1, <2>1, <2>2, <2>3, RaiseOK
  <2>4. CASE tries' = Attempts /\ UNCHANGED <<stage, pc, regs, lost, outcome>>
    <3>1. Migration' = Migration /\ Code' = Code BY <1>1, <2>4 DEF Migration, Code
    <3> QED BY <1>1, <2>1, <2>4, <3>1, DeployAssumption DEF ProcOK
  <2> QED BY <1>3, <2>3, <2>4 DEF VerifyEtherscanContract
<1>4. CASE RunTaskWithRetry
  <2>1. ~AtEnd /\ UNCHANGED <<runs, faults, stage, lost, outcome>>
    BY <1>4 DEF RunTaskWithRetry, Doing, counters
  <2>2. \/ tries' = tries - 1 /\ tries > 1 /\ pc' = pc
        \/ tries' = 0 /\ pc' = pc + 1
    BY <1>4 DEF RunTaskWithRetry
  <2>3. Migration' = Migration /\ Code' = Code BY <1>1, <2>1 DEF Migration, Code
  <2>4. pc \in 1..Len(Code) /\ Len(Code) \in Nat BY <1>1, <2>1, CurrentStep
  <2>5. tries' \in 0..Attempts BY <1>1, <2>2, DeployAssumption DEF ProcOK
  <2>6. pc' \in 1..(Len(Code) + 1) BY <2>2, <2>4
  <2> QED BY <1>1, <2>1, <2>3, <2>5, <2>6 DEF ProcOK
<1>5. CASE NextTask
  <2>1. /\ stage < Len(Migration) /\ stage' = stage + 1 /\ pc' = 1
        /\ UNCHANGED <<tries, lost, outcome, runs, faults>>
    BY <1>5 DEF NextTask, counters
  <2>2. Migration' = Migration BY <1>1 DEF Migration
  <2>3. Migration \in Seq(TaskRecord) BY <1>1, MigrationIsTasks DEF ProcOK
  <2>4. stage' \in 1..Len(Migration) BY <1>1, <2>1, <2>3 DEF ProcOK
  <2>5. Code' = Migration[stage'].code BY <2>2, <2>4 DEF Code
  <2>6. Migration[stage'] \in TaskRecord BY <2>3, <2>4
  <2>7. Code' \in Seq(StepRecord) BY <2>5, <2>6 DEF TaskRecord
  <2>8. pc' \in 1..(Len(Code') + 1) BY <2>1, <2>7
  <2>9. stage' \in 0..Len(Migration') BY <2>2, <2>3, <2>4
  <2> QED BY <1>1, <2>1, <2>2, <2>8, <2>9 DEF ProcOK
<1>6. CASE Finish
  <2>1. outcome' = "finished" /\ UNCHANGED <<stage, pc, tries, lost, runs, faults>>
    BY <1>6 DEF Finish, counters
  <2>2. Migration' = Migration /\ Code' = Code BY <1>1, <2>1 DEF Migration, Code
  <2> QED BY <1>1, <2>1, <2>2 DEF ProcOK
<1> QED BY <1>2, <1>3, <1>4, <1>5, <1>6 DEF Work, Statement

\* Registers and database hold numbers.
LEMMA WorkValues ==
  ASSUME DeployInv, Work
  PROVE  ValuesOK'
<1>1. ValuesOK /\ ProcOK /\ ChainOK BY DEF DeployInv, ChainInv
<1>2. \A r \in Regs, a \in Nat : Keep(r, a) => regs' \in [Regs -> Nat] BY <1>1 DEF Keep, ValuesOK
<1>3. CASE UNCHANGED <<db, regs>> BY <1>1, <1>3 DEF ValuesOK
<1>4. CASE Configured
  <2>1. Current.r \in Regs BY <1>4, DoingStep DEF Configured
  <2>2. Setting(Current.x) \in Nat
    BY <1>1, DeployAssumption DEF Setting, Config, ProcOK, Nobody
  <2> QED BY <1>1, <1>2, <1>4, <2>1, <2>2 DEF Configured, ValuesOK
<1>5. CASE Load
  <2>1. Current.r \in Regs /\ Current.x \in Ids BY <1>5, DoingStep DEF Load
  <2>2. db[Current.x] \in Nat BY <1>1, <2>1 DEF ValuesOK
  <2>3. db' = db /\ (Keep(Current.r, db[Current.x]) \/ regs' = regs) BY <1>5 DEF Load, Raise
  <2> QED BY <1>1, <1>2, <2>1, <2>2, <2>3 DEF ValuesOK
<1>6. CASE Put \/ Save
  <2>1. Current.x \in Ids /\ Reg(Current.r) \in Nat BY <1>6, DoingStep DEF Put, Save
  <2>2. regs' = regs /\ db' = [db EXCEPT ![Current.x] = Reg(Current.r)] BY <1>6 DEF Put, Save
  <2> QED BY <1>1, <2>1, <2>2 DEF ValuesOK
<1>7. CASE Send \/ SendProxy
  <2>1. Current.r \in Regs BY <1>7, DoingStep DEF Send, SendProxy
  <2>2. NextAddress \in Nat BY <1>1, AddressesOK
  <2>3. db' = db /\ (Keep(Current.r, NextAddress) \/ regs' = regs) BY <1>7 DEF Send, SendProxy, Raise
  <2> QED BY <1>1, <1>2, <2>1, <2>2, <2>3 DEF ValuesOK
<1>8. CASE GetSlot
  <2>1. Current.r \in Regs /\ Current.x \in Slots BY <1>8, DoingStep DEF GetSlot
  <2>2. HasProvider => book[Provider][Current.x] \in Nat
    BY <1>1, <2>1 DEF HasProvider, ChainOK
  <2>3. db' = db /\ ((HasProvider /\ Keep(Current.r, book[Provider][Current.x])) \/ regs' = regs)
    BY <1>8 DEF GetSlot, Raise
  <2> QED BY <1>1, <1>2, <2>1, <2>2, <2>3 DEF ValuesOK
<1>9. CASE NextTask BY <1>1, <1>9 DEF NextTask, ValuesOK, NoRegs, Nobody
<1>10. SkipStep \/ Need \/ VerifyEtherscanContract \/ RunTaskWithRetry \/ SetProxy \/ SetSlot
         \/ Upgrade \/ Call \/ Finish => UNCHANGED <<db, regs>>
  BY DEF SkipStep, Need, VerifyEtherscanContract, RunTaskWithRetry, SetProxy, SetSlot,
         Upgrade, Call, Finish, Raise
<1> QED BY <1>3, <1>4, <1>5, <1>6, <1>7, <1>8, <1>9, <1>10 DEF Work

\* Chain, providers and settings keep their shape.
LEMMA WorkChain ==
  ASSUME DeployInv, Work
  PROVE  ChainInv'
<1>1. ChainInv BY DEF DeployInv
<1>2. CASE UNCHANGED <<chain, pending, book, facts>> BY <1>1, <1>2, ChainStays
<1>3. SkipStep \/ Configured \/ Load \/ Need \/ Put \/ VerifyEtherscanContract \/ RunTaskWithRetry
        \/ GetSlot \/ NextTask \/ Finish => UNCHANGED <<chain, pending, book, facts>>
  BY DEF SkipStep, Configured, Load, Need, Put, VerifyEtherscanContract, RunTaskWithRetry,
         GetSlot, NextTask, Finish, chainVars
<1>4. CASE Save BY <1>1, <1>4, MineOK DEF Save
<1> QED BY <1>2, <1>3, <1>4, SendChain, SendProxyChain, SetProxyChain, SetSlotChain,
           UpgradeChain, CallChain DEF Work

\* A transaction that fails ends the statement, or the process.
LEMMA DropInv ==
  ASSUME DeployInv, Drop
  PROVE  DeployInv'
<1>1. ProcOK /\ ValuesOK /\ ChainInv BY DEF DeployInv
<1>2. UNCHANGED <<network, chain, book, facts, db, runs>> /\ pending' = <<>> BY DEF Drop
<1>3. ~AtEnd /\ (Advance \/ Raise) /\ UNCHANGED regs BY DEF Drop, Doing, Raise
<1>4. faults' \in 0..MaxFaults BY <1>1, DeployAssumption DEF Drop, ProcOK
<1>5. ChainInv' BY <1>1, <1>2, PendingDropped
<1>6. ValuesOK' BY <1>1, <1>2, <1>3 DEF ValuesOK
<1>7. ProcOK'
  <2>1. CASE Raise BY <1>1, <1>2, <1>3, <1>4, <2>1, RaiseOK
  <2>2. CASE Advance
    <3>1. Migration' = Migration BY <1>2 DEF Migration
    <3>2. Code' = Code BY <2>2, <3>1 DEF Code, Advance
    <3>3. pc \in 1..Len(Code) /\ Len(Code) \in Nat BY <1>1, <1>3, CurrentStep
    <3> QED BY <1>1, <1>2, <1>4, <2>2, <3>1, <3>2, <3>3 DEF ProcOK, Advance
  <2> QED BY <1>3, <2>1, <2>2
<1> QED BY <1>5, <1>6, <1>7 DEF DeployInv

\* The process dies; the creation it sent is mined, or never is.
LEMMA CrashInv ==
  ASSUME DeployInv, Crash
  PROVE  DeployInv'
<1>1. ProcOK /\ ValuesOK /\ ChainInv BY DEF DeployInv
<1>2. /\ faults < MaxFaults /\ faults' = faults + 1
      /\ tries' = 0 /\ outcome' = "crashed"
      /\ UNCHANGED <<network, db, stage, pc, regs, lost, runs>>
  BY DEF Crash
<1>3. ChainInv' BY <1>1, MineOK, PendingDropped DEF Crash
<1>4. Migration' = Migration /\ Code' = Code BY <1>2 DEF Migration, Code
<1>5. faults' \in 0..MaxFaults /\ tries' \in 0..Attempts BY <1>1, <1>2, DeployAssumption DEF ProcOK
<1>6. ProcOK' BY <1>1, <1>2, <1>4, <1>5 DEF ProcOK
<1> QED BY <1>1, <1>2, <1>3, <1>6 DEF DeployInv, ValuesOK

\* A start forgets the process and keeps chain and database.
LEMMA StartInv ==
  ASSUME DeployInv, Start
  PROVE  DeployInv'
<1>1. ProcOK /\ ValuesOK /\ ChainInv BY DEF DeployInv
<1>2. /\ runs < MaxRuns /\ runs' = runs + 1
      /\ stage' = 0 /\ pc' = 1 /\ regs' = NoRegs /\ lost' = {} /\ outcome' = "running"
      /\ UNCHANGED <<network, chain, pending, book, facts, db, tries, faults>>
  BY DEF Start, chainVars
<1>3. ChainInv' BY <1>1, <1>2, ChainStays
<1>4. ValuesOK' BY <1>1, <1>2 DEF ValuesOK, NoRegs, Nobody
<1>5. Migration' = Migration /\ Migration \in Seq(TaskRecord)
  BY <1>1, <1>2, MigrationIsTasks DEF Migration, ProcOK
<1>6. Code' = <<>> BY <1>2 DEF Code
<1>7. stage' \in 0..Len(Migration') /\ pc' \in 1..(Len(Code') + 1) BY <1>2, <1>5, <1>6
<1>8. runs' \in 0..MaxRuns BY <1>1, <1>2, DeployAssumption DEF ProcOK
<1>9. ProcOK' BY <1>1, <1>2, <1>5, <1>7, <1>8 DEF ProcOK
<1> QED BY <1>3, <1>4, <1>9 DEF DeployInv

\* Before the first start there is no provider.
LEMMA InitInv ==
  ASSUME Init
  PROVE  DeployInv
<1>1. network \in Networks /\ chain = Existing /\ pending = <<>> /\ facts = {} /\ db = KnownDbs[network]
  BY DEF Init
<1>2. Providers = {} BY <1>1, DeployAssumption DEF Providers, Addresses, IsProvider
<1>3. pending \in Seq(Contract) /\ Len(pending) \in 0..1 /\ DOMAIN pending = {} BY <1>1
<1>4. book \in [Providers -> [Slots -> Nat]] BY <1>2 DEF Init
<1>5. ChainOK BY <1>1, <1>3, <1>4, DeployAssumption DEF ChainOK
<1>6. DeployerOK BY <1>1, DeployAssumption DEF DeployerOK, Addresses
<1>7. OwnersOK /\ ProxySlotsOwned /\ FactsOK BY <1>1, <1>2, <1>3 DEF OwnersOK, ProxySlotsOwned, FactsOK
<1>8. ValuesOK BY <1>1, DeployAssumption DEF Init, ValuesOK, NoRegs, Nobody
<1>9. Migration \in Seq(TaskRecord) BY <1>1, MigrationIsTasks
<1>10. Code = <<>> BY DEF Init, Code
<1>11. ProcOK
  <2>1. stage \in 0..Len(Migration) BY <1>9 DEF Init
  <2>2. pc \in 1..(Len(Code) + 1) BY <1>10 DEF Init
  <2>3. tries \in 0..Attempts /\ runs \in 0..MaxRuns /\ faults \in 0..MaxFaults
    BY DeployAssumption DEF Init
  <2> QED BY <1>1, <2>1, <2>2, <2>3 DEF ProcOK, Init
<1> QED BY <1>5, <1>6, <1>7, <1>8, <1>11 DEF DeployInv, ChainInv

\* Nothing at all happens.
LEMMA StutterInv ==
  ASSUME DeployInv, UNCHANGED vars
  PROVE  DeployInv'
<1>1. ProcOK /\ ValuesOK /\ ChainInv BY DEF DeployInv
<1>2. /\ UNCHANGED <<network, db, stage, pc, regs, tries, lost, outcome, runs, faults>>
      /\ UNCHANGED <<chain, pending, book, facts>>
  BY DEF vars, chainVars, procVars, counters
<1>3. ChainInv' BY <1>1, <1>2, ChainStays
<1>4. Migration' = Migration /\ Code' = Code BY <1>2 DEF Migration, Code
<1> QED BY <1>1, <1>2, <1>3, <1>4 DEF DeployInv, ProcOK, ValuesOK

\* Every step keeps the invariant.
LEMMA NextInv ==
  ASSUME DeployInv, [Next]_vars
  PROVE  DeployInv'
<1>1. CASE Work BY <1>1, WorkProc, WorkValues, WorkChain DEF DeployInv
<1> QED BY <1>1, DropInv, CrashInv, StartInv, StutterInv DEF Next

-----------------------------------------------------------------------------
(* Theorems. *)

\* The invariant holds in every state.
LEMMA InvHolds == Spec => []DeployInv
BY InitInv, NextInv, PTL DEF Spec

\* Whatever the tasks are and wherever they fail, the machine stays in its
\* types: each provider has its slots, each register and each entry of the
\* database is an address or empty, and the process is inside its task.
THEOREM DeployTypes == Spec => []DeployTypeOK
BY InvHolds, InvGivesTypes, PTL

\* What stands in a slot that is only set as a proxy is a proxy which this
\* provider made, for itself, and which it may upgrade: no later setXImpl of
\* any task can fail on it, after any number of starts and faults.
THEOREM ProxiesOwned == Spec => []ProxySlotsOwned
<1>1. DeployInv => ProxySlotsOwned BY DEF DeployInv, ChainInv
<1> QED BY InvHolds, <1>1, PTL

-----------------------------------------------------------------------------
(* The machine makes markets. *)

(* What an observer of the markets sees. *)
Made == [p \in DOMAIN book |-> [s \in ProxiedSlots |-> book[p][s]]]

\* The step of the markets, seen here.
LEMMA MarketsStep ==
  MarketsOf!Next <=>
    \E m \in DOMAIN Made' :
      \/ /\ m \notin MarketsOf!Taken \union {MarketsOf!Nobody}
         /\ Made' = [n \in DOMAIN Made \union {m} |->
                       IF n \in DOMAIN Made THEN Made[n]
                       ELSE [s \in ProxiedSlots |-> MarketsOf!Nobody]]
      \/ \E s \in ProxiedSlots :
           /\ m \in DOMAIN Made /\ Made[m][s] = MarketsOf!Nobody
           /\ Made'[m][s] \notin MarketsOf!Taken \union {MarketsOf!Nobody}
           /\ Made' = [Made EXCEPT ![m][s] = Made'[m][s]]
BY Zenon DEF MarketsOf!Next, MarketsOf!Open, MarketsOf!Settle, Made

\* The next address is taken by no market.
LEMMA NextIsFree ==
  ASSUME ChainInv
  PROVE  NextAddress \notin MarketsOf!Taken \union {MarketsOf!Nobody}
<1>1. /\ NextAddress \notin Addresses /\ NextAddress # Nobody
      /\ DOMAIN book = Providers /\ Providers \subseteq Addresses
  BY AddressesOK DEF ChainInv
<1>2. ASSUME NEW m \in DOMAIN Made, NEW s \in ProxiedSlots
      PROVE  Made[m][s] # NextAddress
  <2>1. m \in Providers /\ Made[m][s] = book[m][s] BY <1>1 DEF Made
  <2>2. book[m][s] = Nobody \/ book[m][s] \in Addresses BY <2>1 DEF ChainInv, ProxySlotsOwned
  <2> QED BY <1>1, <2>1, <2>2
<1>3. DOMAIN Made = Providers BY <1>1 DEF Made
<1>4. MarketsOf!Taken = DOMAIN Made \union UNION {{Made[m][s] : s \in ProxiedSlots} : m \in DOMAIN Made}
  BY DEF MarketsOf!Taken, Made
<1>5. NextAddress \notin UNION {{Made[m][s] : s \in ProxiedSlots} : m \in DOMAIN Made} BY <1>2
<1> QED BY <1>1, <1>3, <1>4, <1>5 DEF MarketsOf!Nobody, Nobody

\* A provider that is mined opens a market.
LEMMA MineOpens ==
  ASSUME ChainInv, Mine
  PROVE  MarketsOf!Next \/ Made' = Made
<1> DEFINE created == {pending[i] : i \in DOMAIN pending}
           providers == {c \in created : IsProvider(c)}
<1>1. book' = IF providers = {} THEN book
              ELSE [p \in DOMAIN book \union {NextAddress} |->
                      IF p \in DOMAIN book THEN book[p] ELSE NoSlots]
  BY DEF Mine
<1> HIDE DEF created, providers
<1>2. CASE providers = {} BY <1>1, <1>2 DEF Made
<1>3. CASE providers # {}
  <2>1. DOMAIN book' = DOMAIN book \union {NextAddress} BY <1>1, <1>3
  <2>2. \A p \in DOMAIN book' : book'[p] = IF p \in DOMAIN book THEN book[p] ELSE NoSlots
    BY <1>1, <1>3, <2>1
  <2>3. Made' = [p \in DOMAIN book \union {NextAddress} |-> [s \in ProxiedSlots |-> book'[p][s]]]
    BY <2>1 DEF Made
  <2>4. \A p \in DOMAIN book \union {NextAddress} :
          [s \in ProxiedSlots |-> book'[p][s]] =
            IF p \in DOMAIN Made THEN Made[p] ELSE [s \in ProxiedSlots |-> Nobody]
    BY <2>1, <2>2, ProxiedSlotsFixed DEF Made, NoSlots
  <2>5. Made' = [p \in DOMAIN Made \union {NextAddress} |->
                   IF p \in DOMAIN Made THEN Made[p] ELSE [s \in ProxiedSlots |-> Nobody]]
    BY <2>3, <2>4 DEF Made
  <2>6. NextAddress \in DOMAIN Made' BY <2>5
  <2> QED BY <2>5, <2>6, NextIsFree, MarketsStep DEF MarketsOf!Nobody, Nobody
<1> QED BY <1>2, <1>3

\* A proxy that is made fills a slot of a market.
LEMMA ProxySettles ==
  ASSUME DeployInv, SetProxy
  PROVE  MarketsOf!Next \/ Made' = Made
<1> DEFINE impl == Reg(Current.r)
           old == Standing(Current.x)
           can == HasProvider /\ impl \in Addresses /\ (old # Nobody => chain[old].admin = Provider)
<1>1. ChainInv /\ ChainOK /\ Current.x \in Slots BY DoingStep DEF SetProxy
<1>2. CASE ~(can /\ old = Nobody)
  <2>1. book' = book BY <1>2 DEF SetProxy
  <2> QED BY <2>1 DEF Made
<1>3. CASE can /\ old = Nobody
  <2>1. book' = [book EXCEPT ![Provider][Current.x] = NextAddress] BY <1>3 DEF SetProxy
  <2>2. Provider \in DOMAIN book /\ book[Provider][Current.x] = Nobody
    BY <1>3 DEF HasProvider, Standing
  <2>3. DOMAIN book' = DOMAIN book BY <2>1
  <2>4. \A q \in DOMAIN book, s \in Slots :
          book'[q][s] = IF q = Provider /\ s = Current.x THEN NextAddress ELSE book[q][s]
    <3>1. book \in [DOMAIN book -> [Slots -> Nat]] BY <1>1 DEF ChainOK
    <3> QED BY <1>1, <2>1, <2>2, <3>1
  <2>5. CASE Current.x \in ProxiedSlots
    <3>1. Made' = [Made EXCEPT ![Provider][Current.x] = NextAddress]
      <4> DEFINE row == [Made[Provider] EXCEPT ![Current.x] = NextAddress]
      <4>1. row = [s \in ProxiedSlots |-> book'[Provider][s]]
        BY <2>2, <2>4, <2>5, ProxiedSlotsFixed DEF Made
      <4>2. \A q \in DOMAIN book : q # Provider =>
              Made[q] = [s \in ProxiedSlots |-> book'[q][s]]
        BY <2>4, ProxiedSlotsFixed DEF Made
      <4>3. Made' = [q \in DOMAIN book |-> [s \in ProxiedSlots |-> book'[q][s]]] BY <2>3 DEF Made
      <4>4. Made = [q \in DOMAIN book |-> Made[q]] BY DEF Made
      <4>5. [Made EXCEPT ![Provider] = row] =
              [q \in DOMAIN book |-> IF q = Provider THEN row ELSE Made[q]]
        BY <4>4
      <4> HIDE DEF row
      <4>6. Made' = [Made EXCEPT ![Provider] = row] BY <4>1, <4>2, <4>3, <4>5
      <4> QED BY <4>6 DEF row
    <3>2. Provider \in DOMAIN Made /\ Made[Provider][Current.x] = Nobody
      BY <2>2, <2>5 DEF Made
    <3>3. Provider \in DOMAIN Made' /\ Made'[Provider][Current.x] = NextAddress
      BY <2>2, <2>3, <2>4, <2>5, ProxiedSlotsFixed DEF Made
    <3> QED BY <1>1, <2>5, <3>1, <3>2, <3>3, NextIsFree, MarketsStep
            DEF MarketsOf!Nobody, Nobody
  <2>6. CASE Current.x \notin ProxiedSlots
    <3>1. \A q \in DOMAIN book, s \in ProxiedSlots : book'[q][s] = book[q][s]
      BY <2>4, <2>6, ProxiedSlotsFixed
    <3> QED BY <2>3, <3>1 DEF Made
  <2> QED BY <2>5, <2>6
<1> QED BY <1>2, <1>3

\* A slot set by hand belongs to no proxy.
LEMMA SlotSetUnseen ==
  ASSUME DeployInv, SetSlot
  PROVE  Made' = Made
<1>1. ChainOK /\ Current \in StepsAnywhere /\ Current.op = "set" BY DoingStep DEF SetSlot
<1>2. Current.x \notin ProxiedSlots BY <1>1, ProxiedSlotsFixed
<1>3. book' = book \/ book' = [book EXCEPT ![Provider][Current.x] = Reg(Current.r)] BY DEF SetSlot
<1>4. book \in [DOMAIN book -> [Slots -> Nat]] BY <1>1 DEF ChainOK
<1>5. DOMAIN book' = DOMAIN book BY <1>3
<1>6. \A q \in DOMAIN book, s \in ProxiedSlots : book'[q][s] = book[q][s]
  BY <1>2, <1>3, <1>4, ProxiedSlotsFixed
<1> QED BY <1>5, <1>6 DEF Made

\* Every step of the machine is one of the markets' steps, or unseen.
LEMMA NextImplements ==
  ASSUME DeployInv, [Next]_vars
  PROVE  MarketsOf!Next \/ Made' = Made
<1>1. ChainInv BY DEF DeployInv
<1>2. CASE book' = book BY <1>2 DEF Made
<1>3. CASE Mine BY <1>1, <1>3, MineOpens
<1>4. CASE SetProxy BY <1>4, ProxySettles
<1>5. CASE SetSlot BY <1>5, SlotSetUnseen
<1>6. CASE Work
  <2>1. SkipStep \/ Configured \/ Load \/ Need \/ Put \/ Send \/ SendProxy
          \/ VerifyEtherscanContract \/ RunTaskWithRetry \/ GetSlot \/ Upgrade \/ Call
          \/ NextTask \/ Finish => book' = book
    BY DEF SkipStep, Configured, Load, Need, Put, Send, SendProxy, VerifyEtherscanContract,
           RunTaskWithRetry, GetSlot, Upgrade, Call, NextTask, Finish, chainVars
  <2>2. Save => Mine BY DEF Save
  <2> QED BY <1>2, <1>3, <1>4, <1>5, <1>6, <2>1, <2>2 DEF Work
<1>7. CASE Drop BY <1>2, <1>7 DEF Drop
<1>8. CASE Crash BY <1>2, <1>3, <1>8 DEF Crash
<1>9. CASE Start BY <1>2, <1>9 DEF Start, chainVars
<1>10. CASE UNCHANGED vars BY <1>2, <1>10 DEF vars, chainVars
<1> QED BY <1>6, <1>7, <1>8, <1>9, <1>10 DEF Next

\* The deployment keeps the promise of Markets: every market gets each of its
\* proxies once, at an address no other market and no other slot has, through
\* any number of starts, crashes and failed transactions.
THEOREM ImplementsMarkets == Spec => MarketsImplemented
<1>1. Init => MarketsOf!Init BY DEF Init, MarketsOf!Init
<1>2. DeployInv /\ [Next]_vars
        => [MarketsOf!Next]_([p \in DOMAIN book |-> [s \in ProxiedSlots |-> book[p][s]]])
  BY NextImplements DEF Made
<1> QED BY <1>1, <1>2, InvHolds, PTL DEF Spec, MarketsImplemented, MarketsOf!Spec

Promise == INSTANCE MarketsProofs WITH
    Fixed <- ProxiedSlots,
    markets <- [p \in DOMAIN book |-> [s \in ProxiedSlots |-> book[p][s]]]

\* So no address ever serves two markets, or two slots of one: what was told
\* to a user of one market never turns into a contract of another.
THEOREM MarketsNeverShare == Spec => []Promise!NoneShared
<1>1. MarketsOf!Spec => Promise!Spec
  BY DEF MarketsOf!Spec, Promise!Spec, MarketsOf!Init, Promise!Init, MarketsOf!Next, Promise!Next,
         MarketsOf!Open, Promise!Open, MarketsOf!Settle, Promise!Settle,
         MarketsOf!Taken, Promise!Taken, MarketsOf!Nobody, Promise!Nobody
<1>2. Promise!Spec => []Promise!NoneShared BY Promise!NoContractShared
<1> QED BY ImplementsMarkets, <1>1, <1>2, PTL DEF MarketsImplemented
-----------------------------------------------------------------------------
(* The database names what is on the chain.                                *)
(*                                                                         *)
(* That is not inductive: what is entered comes from a register, which may *)
(* hold the address of a creation that is not mined yet.  The invariant    *)
(* says when it does: between the step that sends a creation and the one   *)
(* that waits for it, which TasksAssumption finds in every task.           *)

There(a) == a = Nobody \/ a \in Addresses

AllThere == \A r \in Regs : There(regs[r])

(* A creation is sent into r, and the step the process is at waits for it, *)
(* or enters its key early and the next one waits.                         *)
Awaiting(r) ==
    /\ Len(pending) = 1 /\ regs[r] = NextAddress
    /\ \A q \in Regs \ {r} : There(regs[q])
    /\ Holds(Current) /\ Current.r = r
    /\ \/ Current.op = "save"
       \/ /\ Current.op = "put" /\ Current.x \in EarlyIds
          /\ pc + 1 \in DOMAIN Code /\ Code[pc + 1].op = "save"
          /\ Code[pc + 1].r = r /\ Code[pc + 1].when = Current.when

RegsThere == Running /\ ~AtEnd => AllThere \/ \E r \in Regs : Awaiting(r)

BookThere == \A p \in DOMAIN book, s \in Slots : There(book[p][s])

MinedInv == DOMAIN Existing \subseteq Addresses /\ RegsThere /\ BookThere /\ DbEntriesMined

\* Mining puts the creation at the next address, and moves nothing.
LEMMA MineGrows ==
  ASSUME ChainOK, Mine
  PROVE  /\ Addresses \subseteq Addresses'
         /\ Len(pending) = 1 => NextAddress \in Addresses'
<1>1. chain \in Seq(Contract) /\ pending \in Seq(Contract) /\ chain' = chain \o pending
  BY DEF ChainOK, Mine
<1> DEFINE n == Len(chain)
           k == Len(pending)
<1>2. n \in Nat /\ k \in Nat /\ Addresses = 1..n BY <1>1 DEF Addresses
<1>3. Addresses' = 1..(n + k) BY <1>1, ConcatProperties DEF Addresses
<1>4. NextAddress = n + 1 BY DEF NextAddress
<1> HIDE DEF n, k
<1>5. Addresses \subseteq Addresses' /\ (k = 1 => NextAddress \in Addresses') BY <1>2, <1>3, <1>4
<1> QED BY <1>5 DEF k

\* A proxy is made at the next address.
LEMMA ProxyGrows ==
  ASSUME DeployInv, SetProxy
  PROVE  /\ Addresses \subseteq Addresses'
         /\ Standing(Current.x) = Nobody /\ book' # book => NextAddress \in Addresses'
<1>1. chain \in Seq(Contract) /\ Addresses = 1..Len(chain) /\ Len(chain) \in Nat
  BY DoingStep, AddressesOK DEF SetProxy, ChainOK
<1> DEFINE c == NewProxy(Reg(Current.r))
<1>2. CASE chain' = Append(chain, c)
  <2>1. DOMAIN chain' = 1..(Len(chain) + 1) BY <1>1, <1>2
  <2> QED BY <1>1, <2>1 DEF Addresses, NextAddress
<1>3. CASE chain' = [chain EXCEPT ![Standing(Current.x)].impl = Reg(Current.r)] /\ book' = book
  BY <1>1, <1>3 DEF Addresses
<1>4. CASE chain' = chain /\ book' = book BY <1>4 DEF Addresses
<1> QED BY <1>2, <1>3, <1>4 DEF SetProxy

\* No contract leaves the chain.
LEMMA AddressesGrow ==
  ASSUME DeployInv, [Next]_vars
  PROVE  Addresses \subseteq Addresses'
<1>1. ChainOK /\ chain \in Seq(Contract) BY DEF DeployInv, ChainInv, ChainOK
<1>2. CASE chain' = chain BY <1>2 DEF Addresses
<1>3. CASE Mine BY <1>1, <1>3, MineGrows
<1>4. CASE SetProxy BY <1>4, ProxyGrows
<1>5. CASE Upgrade
  <2>1. DOMAIN chain' = DOMAIN chain BY <1>1, <1>5 DEF Upgrade
  <2> QED BY <2>1 DEF Addresses
<1>6. CASE Work
  <2>1. SkipStep \/ Configured \/ Load \/ Need \/ Put \/ Send \/ SendProxy
          \/ VerifyEtherscanContract \/ RunTaskWithRetry \/ SetSlot \/ GetSlot \/ Call
          \/ NextTask \/ Finish => chain' = chain
    BY DEF SkipStep, Configured, Load, Need, Put, Send, SendProxy, VerifyEtherscanContract,
           RunTaskWithRetry, SetSlot, GetSlot, Call, NextTask, Finish, chainVars
  <2>2. Save => Mine BY DEF Save
  <2> QED BY <1>2, <1>3, <1>4, <1>5, <1>6, <2>1, <2>2 DEF Work
<1>7. CASE Drop BY <1>2, <1>7 DEF Drop
<1>8. CASE Crash BY <1>2, <1>3, <1>8 DEF Crash
<1>9. CASE Start BY <1>2, <1>9 DEF Start, chainVars
<1>10. CASE UNCHANGED vars BY <1>2, <1>10 DEF vars, chainVars
<1> QED BY <1>6, <1>7, <1>8, <1>9, <1>10 DEF Next

\* The step after one that creates a contract.
LEMMA CreationAwaited ==
  ASSUME ProcOK, ~AtEnd, Current.op \in {"send", "sendProxy"}
  PROVE  /\ \A g \in Current.when : g[1] # Current.r
         /\ pc + 1 \in DOMAIN Code
         /\ Code[pc + 1].r = Current.r /\ Code[pc + 1].when = Current.when
         /\ \/ Code[pc + 1].op = "save"
            \/ /\ Code[pc + 1].op = "put" /\ Code[pc + 1].x \in EarlyIds
               /\ pc + 1 + 1 \in DOMAIN Code /\ Code[pc + 1 + 1].op = "save"
               /\ Code[pc + 1 + 1].r = Current.r /\ Code[pc + 1 + 1].when = Current.when
<1>1. /\ stage \in DOMAIN Migration /\ Migration \in Seq(TaskRecord)
      /\ pc \in 1..Len(Code) /\ Len(Code) \in Nat /\ network \in Networks
  BY CurrentStep DEF ProcOK
<1>2. stage # 0 /\ Code = Migration[stage].code /\ Migration[stage] = Migrations[network][stage]
  BY <1>1 DEF Code, Migration
<1>3. Code \in Seq(StepRecord) /\ pc \in DOMAIN Code
  <2>1. Migration[stage] \in TaskRecord BY <1>1
  <2>2. Code \in Seq(StepRecord) BY <1>2, <2>1 DEF TaskRecord
  <2> QED BY <1>1, <2>2
<1>4. Awaited(Code, pc)
  BY <1>1, <1>2, <1>3, TasksAssumption DEF Migration, Current
<1>5. pc + 1 + 1 = pc + 2 /\ pc + 1 # 1 /\ (pc + 1) - 1 = pc BY <1>1
<1>6. /\ \A g \in Current.when : g[1] # Current.r
      /\ \/ Follows(Code, pc, pc + 1, "save")
         \/ /\ Current.op = "send" /\ Follows(Code, pc, pc + 1, "put")
            /\ Follows(Code, pc, pc + 1 + 1, "save")
  BY <1>4, <1>5 DEF Awaited, Current
<1>7. CASE Follows(Code, pc, pc + 1, "save") BY <1>6, <1>7 DEF Follows, Current
<1>8. CASE /\ Current.op = "send" /\ Follows(Code, pc, pc + 1, "put")
           /\ Follows(Code, pc, pc + 1 + 1, "save")
  <2>1. pc + 1 \in DOMAIN Code \ {1} /\ Code[pc + 1].op = "put" /\ Code[(pc + 1) - 1].op = "send"
    BY <1>5, <1>8 DEF Follows, Current
  <2>2. Code[pc + 1].x \in EarlyOf(Migrations[network][stage])
    <3> DEFINE t == Migrations[network][stage]
    <3>1. t.code = Code BY <1>2
    <3>2. pc + 1 \in {j \in DOMAIN t.code \ {1} : t.code[j].op = "put" /\ t.code[j - 1].op = "send"}
      <4> HIDE DEF t
      <4> QED BY <2>1, <3>1
    <3> QED BY <3>1, <3>2 DEF EarlyOf
  <2>3. Code[pc + 1].x \in EarlyIds
    BY <1>1, <2>2 DEF EarlyIds, Migration
  <2> QED BY <1>6, <1>8, <2>3 DEF Follows, Current
<1> QED BY <1>6, <1>7, <1>8

\* A key that is looked up is not one that is written early.
LEMMA LoadedLate ==
  ASSUME ProcOK, ~AtEnd, Current.op = "load"
  PROVE  Current.x \notin EarlyIds
<1>1. /\ stage \in DOMAIN Migration /\ Migration \in Seq(TaskRecord)
      /\ pc \in 1..Len(Code) /\ Len(Code) \in Nat /\ network \in Networks
  BY CurrentStep DEF ProcOK
<1>2. stage # 0 /\ Code = Migration[stage].code /\ Migration[stage] = Migrations[network][stage]
  BY <1>1 DEF Code, Migration
<1>3. Code \in Seq(StepRecord) /\ pc \in DOMAIN Code
  <2>1. Migration[stage] \in TaskRecord BY <1>1
  <2>2. Code \in Seq(StepRecord) BY <1>2, <2>1 DEF TaskRecord
  <2> QED BY <1>1, <2>2
<1> QED BY <1>1, <1>2, <1>3, TasksAssumption DEF Migration, Current

\* An address that is there stays there.
LEMMA StillThere ==
  ASSUME AllThere, Addresses \subseteq Addresses', regs' = regs
  PROVE  AllThere'
BY DEF AllThere, There

\* One register gets an address that is there.
LEMMA OneMoreThere ==
  ASSUME AllThere, ValuesOK, Addresses \subseteq Addresses',
         NEW r \in Regs, NEW a, There(a), Keep(r, a)
  PROVE  AllThere'
<1>1. \A q \in Regs : regs'[q] = IF q = r THEN a ELSE regs[q] BY DEF Keep, ValuesOK
<1> QED BY <1>1 DEF AllThere, There

\* Nothing but the statement that waits for a creation is executed on it.
LEMMA OnlyAwaited ==
  ASSUME DeployInv, Work, NEW r \in Regs, Awaiting(r), ~AtEnd
  PROVE  \/ Current.op = "save" /\ Save
         \/ Current.op = "put" /\ Put
<1>1. Holds(Current) /\ Current.op \in {"save", "put"} BY DEF Awaiting
<1>2. CASE Statement
  BY <1>1, <1>2 DEF Statement, SkipStep, Configured, Load, Need, Put, Send, SendProxy, Save,
     SetProxy, SetSlot, GetSlot, Upgrade, Call, Doing
<1>3. CASE VerifyEtherscanContract \/ RunTaskWithRetry
  BY <1>1, <1>3 DEF VerifyEtherscanContract, RunTaskWithRetry, Doing
<1>4. CASE NextTask \/ Finish BY <1>4 DEF NextTask, Finish
<1> QED BY <1>2, <1>3, <1>4 DEF Work, Statement

\* The condition of a step is that of the next one, if no register it tests
\* was written.
LEMMA HoldsStill ==
  ASSUME NEW s, NEW t, Holds(s), t.when = s.when,
         \A g \in s.when : regs'[g[1]] = regs[g[1]]
  PROVE  \A g \in t.when : (regs'[g[1]] # Nobody) = g[2]
BY DEF Holds

\* A creation that is sent is awaited.
LEMMA SentIsAwaited ==
  ASSUME DeployInv, ~AtEnd, AllThere, Holds(Current),
         Current.op \in {"send", "sendProxy"}, UNCHANGED <<network, chain>>,
         Len(pending') = 1, Keep(Current.r, NextAddress), Advance
  PROVE  \E r \in Regs : Awaiting(r)'
<1> DEFINE r == Current.r
<1>1. ProcOK /\ ValuesOK BY DEF DeployInv
<1>2. /\ \A g \in Current.when : g[1] # r
      /\ pc + 1 \in DOMAIN Code
      /\ Code[pc + 1].r = r /\ Code[pc + 1].when = Current.when
      /\ \/ Code[pc + 1].op = "save"
         \/ /\ Code[pc + 1].op = "put" /\ Code[pc + 1].x \in EarlyIds
            /\ pc + 1 + 1 \in DOMAIN Code /\ Code[pc + 1 + 1].op = "save"
            /\ Code[pc + 1 + 1].r = r /\ Code[pc + 1 + 1].when = Current.when
  BY <1>1, CreationAwaited
<1>3. Current \in StepRecord /\ r \in Regs BY <1>1, CurrentStep, StepArguments
<1>4. pc' = pc + 1 /\ Code' = Code BY DEF Advance, Code, Migration
<1>5. Current' = Code[pc + 1] BY <1>4 DEF Current
<1>6. regs'[r] = NextAddress /\ \A q \in Regs : q # r => regs'[q] = regs[q]
  BY <1>1, <1>3 DEF Keep, ValuesOK
<1>7. NextAddress' = NextAddress /\ Addresses' = Addresses BY DEF NextAddress, Addresses
<1>8. \A g \in Current.when : regs'[g[1]] = regs[g[1]]
  <2>1. Current.when \subseteq Regs \X BOOLEAN BY <1>3 DEF StepRecord
  <2>2. \A g \in Current.when : g[1] \in Regs BY <2>1
  <2> QED BY <1>2, <1>6, <2>2
<1>9. \A g \in Current'.when : (regs'[g[1]] # Nobody) = g[2]
  BY <1>2, <1>5, <1>8, HoldsStill
<1>10. Holds(Current)' BY <1>9 DEF Holds
<1>11. \A q \in Regs \ {r} : regs'[q] = Nobody \/ regs'[q] \in Addresses'
  BY <1>6, <1>7 DEF AllThere, There
<1> HIDE DEF r
<1>12. Current'.r = r BY <1>2, <1>5
<1>13. PICK k \in Regs : k = r BY <1>3 DEF r
<1>14. Awaiting(k)'
  <2>1. regs'[k] = NextAddress' /\ Current'.r = k BY <1>6, <1>7, <1>12, <1>13
  <2>2. \A q \in Regs \ {k} : There(regs[q])' BY <1>11, <1>13 DEF There
  <2>3. \/ Current'.op = "save"
        \/ /\ Current'.op = "put" /\ Current'.x \in EarlyIds
           /\ pc' + 1 \in DOMAIN Code' /\ Code'[pc' + 1].op = "save"
           /\ Code'[pc' + 1].r = k /\ Code'[pc' + 1].when = Current'.when
    BY <1>2, <1>4, <1>5, <1>13
  <2> QED BY <1>10, <2>1, <2>2, <2>3 DEF Awaiting
<1> QED BY <1>14

\* Registers hold what is there, or the creation that is waited for.
LEMMA WorkRegs ==
  ASSUME DeployInv, MinedInv, Work
  PROVE  RegsThere'
<1>1. /\ ChainOK /\ ValuesOK /\ ProcOK /\ RegsThere /\ network' = network
      /\ Addresses \subseteq Addresses'
  BY AddressesGrow DEF DeployInv, ChainInv, MinedInv, Next, Work
<1>2. AllThere' => RegsThere' BY DEF RegsThere
<1>3. CASE NextTask
  <2>1. \A q \in Regs : regs'[q] = Nobody BY <1>3 DEF NextTask, NoRegs
  <2> QED BY <1>2, <2>1 DEF AllThere, There
<1>4. CASE Finish BY <1>4 DEF Finish, RegsThere, Running
<1>5. CASE ~(NextTask \/ Finish)
  <2>1. Running /\ ~AtEnd
    BY <1>5 DEF Work, SkipStep, Configured, Load, Need, Put, Send, SendProxy, Save,
       VerifyEtherscanContract, RunTaskWithRetry, SetProxy, SetSlot, GetSlot, Upgrade, Call, Doing
  <2>2. CASE AllThere
    <3>1. CASE regs' = regs BY <1>1, <1>2, <2>2, <3>1, StillThere
    <3>2. CASE Configured
      <4>1. Current.r \in Regs BY <3>2, DoingStep DEF Configured
      <4>2. There(Setting(Current.x))
        BY <1>1, AddressesAssumption DEF Setting, Config, There, Nobody, ProcOK, MinedInv
      <4>3. Keep(Current.r, Setting(Current.x)) BY <3>2 DEF Configured
      <4> QED BY <1>1, <1>2, <2>2, <4>1, <4>2, <4>3, OneMoreThere
    <3>3. CASE Load
      <4>1. /\ Current.r \in Regs /\ Current.x \in Ids /\ Current.op = "load"
        BY <3>3, DoingStep DEF Load
      <4>2. Current.x \notin EarlyIds BY <1>1, <2>1, <4>1, LoadedLate
      <4>3. There(db[Current.x]) BY <4>1, <4>2 DEF MinedInv, DbEntriesMined, There
      <4>4. CASE Keep(Current.r, db[Current.x])
        BY <1>1, <1>2, <2>2, <4>1, <4>3, <4>4, OneMoreThere
      <4> QED BY <3>1, <3>3, <4>4 DEF Load, Raise
    <3>4. CASE Send
      <4>1. /\ Current.op = "send" /\ Holds(Current) /\ UNCHANGED <<network, chain>>
            /\ Keep(Current.r, NextAddress) /\ Advance
        BY <1>1, <3>4 DEF Send, Doing
      <4>2. Len(pending') = 1 BY <3>4 DEF Send
      <4> QED BY <2>1, <2>2, <4>1, <4>2, SentIsAwaited DEF RegsThere
    <3>5. CASE SendProxy
      <4>1. CASE Reg("impl") \in Addresses
        <5>1. /\ Current.op = "sendProxy" /\ Holds(Current) /\ UNCHANGED <<network, chain>>
              /\ Keep(Current.r, NextAddress) /\ Advance
          BY <1>1, <3>5, <4>1 DEF SendProxy, Doing
        <5>2. Len(pending') = 1 BY <3>5, <4>1 DEF SendProxy
        <5> QED BY <2>1, <2>2, <5>1, <5>2, SentIsAwaited DEF RegsThere
      <4>2. CASE Reg("impl") \notin Addresses BY <3>1, <3>5, <4>2 DEF SendProxy, Raise
      <4> QED BY <4>1, <4>2
    <3>6. CASE GetSlot
      <4>1. Current.r \in Regs /\ Current.x \in Slots BY <3>6, DoingStep DEF GetSlot
      <4>2. CASE HasProvider
        <5>1. There(book[Provider][Current.x])
          BY <4>1, <4>2 DEF MinedInv, BookThere, HasProvider
        <5>2. Keep(Current.r, book[Provider][Current.x]) BY <3>6, <4>2 DEF GetSlot
        <5> QED BY <1>1, <1>2, <2>2, <4>1, <5>1, <5>2, OneMoreThere
      <4>3. CASE ~HasProvider BY <3>1, <3>6, <4>3 DEF GetSlot, Raise
      <4> QED BY <4>2, <4>3
    <3>7. SkipStep \/ Need \/ Put \/ Save \/ VerifyEtherscanContract \/ RunTaskWithRetry
            \/ SetProxy \/ SetSlot \/ Upgrade \/ Call => regs' = regs
      BY DEF SkipStep, Need, Put, Save, VerifyEtherscanContract, RunTaskWithRetry,
             SetProxy, SetSlot, Upgrade, Call, Raise
    <3> QED BY <1>5, <3>1, <3>2, <3>3, <3>4, <3>5, <3>6, <3>7 DEF Work
  <2>3. CASE ~AllThere
    <3>1. PICK r \in Regs : Awaiting(r) BY <1>1, <2>1, <2>3 DEF RegsThere
    <3>2. /\ regs[r] = NextAddress /\ Current.r = r /\ Len(pending) = 1
          /\ \A q \in Regs \ {r} : There(regs[q])
      BY <3>1 DEF Awaiting
    <3>3. CASE Current.op = "save" /\ Save
      <4>1. regs' = regs /\ NextAddress \in Addresses' BY <1>1, <3>2, <3>3, MineGrows DEF Save
      <4>2. \A q \in Regs : regs'[q] = Nobody \/ regs'[q] \in Addresses'
        BY <1>1, <3>2, <4>1 DEF There
      <4> QED BY <1>2, <4>2 DEF AllThere, There
    <3>4. CASE Current.op = "put" /\ Put
      <4>1. /\ Advance /\ UNCHANGED <<chain, pending, regs>> BY <3>4 DEF Put, chainVars
      <4>2. /\ pc + 1 \in DOMAIN Code /\ Code[pc + 1].op = "save"
            /\ Code[pc + 1].r = r /\ Code[pc + 1].when = Current.when
            /\ Holds(Current)
        BY <3>1, <3>4 DEF Awaiting
      <4>3. pc' = pc + 1 /\ Code' = Code BY <1>1, <4>1 DEF Advance, Code, Migration
      <4>4. Current' = Code[pc + 1] BY <4>3 DEF Current
      <4>5. \A g \in Current'.when : (regs'[g[1]] # Nobody) = g[2]
        BY <4>1, <4>2, <4>4, HoldsStill
      <4>6. Holds(Current)' BY <4>5 DEF Holds
      <4>7. NextAddress' = NextAddress /\ Addresses' = Addresses
        BY <4>1 DEF NextAddress, Addresses
      <4>8. \A q \in Regs \ {r} : There(regs[q])' BY <3>2, <4>1, <4>7 DEF There
      <4>9. /\ Len(pending') = 1 /\ regs'[r] = NextAddress'
            /\ Current'.r = r /\ Current'.op = "save"
        BY <3>2, <4>1, <4>2, <4>4, <4>7
      <4>10. Awaiting(r)' BY <4>6, <4>8, <4>9 DEF Awaiting
      <4> QED BY <4>10 DEF RegsThere
    <3> QED BY <2>1, <3>1, <3>3, <3>4, OnlyAwaited
  <2> QED BY <2>2, <2>3
<1> QED BY <1>3, <1>4, <1>5

\* A slot is set to what is there.
LEMMA SlotThere ==
  ASSUME ChainOK, BookThere, Addresses \subseteq Addresses', NEW x \in Slots,
         NEW v \in Nat, v = Nobody \/ v \in Addresses', NEW p \in Providers,
         book' \in [Providers -> [Slots -> Nat]],
         \A q \in Providers, s \in Slots :
           book'[q][s] = IF q = p /\ s = x THEN v ELSE book[q][s]
  PROVE  BookThere'
<1>1. DOMAIN book = Providers /\ DOMAIN book' = Providers BY AddressesOK
<1>2. \A q \in DOMAIN book', s \in Slots : book'[q][s] = Nobody \/ book'[q][s] \in Addresses'
  BY <1>1 DEF BookThere, There
<1> QED BY <1>2 DEF BookThere, There

\* Slots hold what is there.
LEMMA WorkBook ==
  ASSUME DeployInv, MinedInv, Work
  PROVE  BookThere'
<1>1. ChainOK /\ ValuesOK /\ RegsThere /\ BookThere /\ Addresses \subseteq Addresses'
  BY AddressesGrow DEF DeployInv, ChainInv, MinedInv, Next
<1>2. CASE book' = book BY <1>1, <1>2 DEF BookThere, There
<1>3. CASE Save
  <2>1. \A p \in DOMAIN book' : (p \in DOMAIN book /\ book'[p] = book[p]) \/ book'[p] = NoSlots
    BY <1>3 DEF Save, Mine
  <2>2. \A p \in DOMAIN book', s \in Slots : book'[p][s] = Nobody \/ book'[p][s] \in Addresses'
    BY <1>1, <2>1 DEF BookThere, There, NoSlots
  <2> QED BY <2>2 DEF BookThere, There
<1>4. CASE SetProxy
  <2>1. Current.x \in Slots BY <1>4, DoingStep DEF SetProxy
  <2>2. CASE book' # book
    <3>1. /\ Standing(Current.x) = Nobody /\ HasProvider
          /\ book' = [book EXCEPT ![Provider][Current.x] = NextAddress]
      BY <1>4, <2>2 DEF SetProxy
    <3>2. NextAddress \in Addresses' BY <1>4, <2>2, <3>1, ProxyGrows
    <3>3. NextAddress \in Nat BY <1>1, AddressesOK
    <3>4. Provider \in Providers BY <1>1, <3>1, AddressesOK DEF HasProvider
    <3>5. /\ book' \in [Providers -> [Slots -> Nat]]
          /\ \A q \in Providers, s \in Slots :
               book'[q][s] = IF q = Provider /\ s = Current.x THEN NextAddress ELSE book[q][s]
      BY <1>1, <2>1, <3>1, <3>3, <3>4, BookChanged
    <3> QED BY <1>1, <2>1, <3>2, <3>3, <3>4, <3>5, SlotThere
  <2> QED BY <1>2, <2>2
<1>5. CASE SetSlot
  <2>1. Current.x \in Slots /\ Current.r \in Regs /\ Reg(Current.r) \in Nat /\ ~AtEnd
    BY <1>5, DoingStep DEF SetSlot
  <2>2. CASE book' # book
    <3>1. HasProvider /\ book' = [book EXCEPT ![Provider][Current.x] = Reg(Current.r)]
      BY <1>5, <2>2 DEF SetSlot
    <3>2. Running /\ Current.op = "set" BY <1>5 DEF SetSlot, Doing
    <3>3. AllThere
      <4>1. \A r \in Regs : ~Awaiting(r) BY <3>2 DEF Awaiting
      <4> QED BY <1>1, <2>1, <3>2, <4>1 DEF RegsThere
    <3>4. Reg(Current.r) = Nobody \/ Reg(Current.r) \in Addresses'
      BY <1>1, <2>1, <3>3 DEF AllThere, There, Reg
    <3>5. Provider \in Providers BY <1>1, <3>1, AddressesOK DEF HasProvider
    <3>6. /\ book' \in [Providers -> [Slots -> Nat]]
          /\ \A q \in Providers, s \in Slots :
               book'[q][s] = IF q = Provider /\ s = Current.x THEN Reg(Current.r) ELSE book[q][s]
      BY <1>1, <2>1, <3>1, <3>5, BookChanged
    <3> QED BY <1>1, <2>1, <3>4, <3>5, <3>6, SlotThere
  <2> QED BY <1>2, <2>2
<1>6. SkipStep \/ Configured \/ Load \/ Need \/ Put \/ Send \/ SendProxy
        \/ VerifyEtherscanContract \/ RunTaskWithRetry \/ GetSlot \/ Upgrade \/ Call
        \/ NextTask \/ Finish => book' = book
  BY DEF SkipStep, Configured, Load, Need, Put, Send, SendProxy, VerifyEtherscanContract,
         RunTaskWithRetry, GetSlot, Upgrade, Call, NextTask, Finish, chainVars
<1> QED BY <1>2, <1>3, <1>4, <1>5, <1>6 DEF Work

\* An entry stays there as long as nobody writes it.
LEMMA EntriesStay ==
  ASSUME DbEntriesMined, Addresses \subseteq Addresses', db' = db
  PROVE  DbEntriesMined'
BY DEF DbEntriesMined

\* What is entered late is there.
LEMMA WorkDb ==
  ASSUME DeployInv, MinedInv, Work
  PROVE  DbEntriesMined'
<1>1. /\ ChainOK /\ ValuesOK /\ RegsThere /\ DbEntriesMined /\ Addresses \subseteq Addresses'
  BY AddressesGrow DEF DeployInv, ChainInv, MinedInv, Next
<1>2. CASE db' = db BY <1>1, <1>2, EntriesStay
<1>3. CASE Put \/ Save
  <2>1. /\ Current.x \in Ids /\ Current.r \in Regs /\ ~AtEnd /\ Running
        /\ db' = [db EXCEPT ![Current.x] = Reg(Current.r)]
        /\ Put => Current.op = "put"
        /\ Save => Current.op = "save" /\ Mine
    BY <1>3, DoingStep DEF Put, Save, Doing
  <2>2. \A id \in Ids : db'[id] = IF id = Current.x THEN Reg(Current.r) ELSE db[id]
    BY <1>1, <2>1 DEF ValuesOK
  <2>3. Current.x \in EarlyIds \/ Reg(Current.r) = Nobody \/ Reg(Current.r) \in Addresses'
    <3>1. CASE AllThere BY <1>1, <2>1, <3>1 DEF AllThere, There, Reg
    <3>2. CASE ~AllThere
      <4>1. PICK r \in Regs : Awaiting(r) BY <1>1, <2>1, <3>2 DEF RegsThere
      <4>2. Reg(Current.r) = NextAddress /\ Len(pending) = 1 BY <4>1 DEF Awaiting, Reg
      <4>3. Current.op = "put" => Current.x \in EarlyIds BY <4>1 DEF Awaiting
      <4>4. Save => NextAddress \in Addresses' BY <1>1, <2>1, <4>2, MineGrows
      <4> QED BY <1>3, <2>1, <4>2, <4>3, <4>4
    <3> QED BY <3>1, <3>2
  <2> QED BY <1>1, <2>2, <2>3 DEF DbEntriesMined
<1>4. SkipStep \/ Configured \/ Load \/ Need \/ Send \/ SendProxy
        \/ VerifyEtherscanContract \/ RunTaskWithRetry \/ SetProxy \/ SetSlot \/ GetSlot
        \/ Upgrade \/ Call \/ NextTask \/ Finish => db' = db
  BY DEF SkipStep, Configured, Load, Need, Send, SendProxy, VerifyEtherscanContract,
         RunTaskWithRetry, SetProxy, SetSlot, GetSlot, Upgrade, Call, NextTask, Finish
<1> QED BY <1>2, <1>3, <1>4 DEF Work

\* A transaction that fails: the process leaves the step that waited for it.
LEMMA DropRegs ==
  ASSUME DeployInv, MinedInv, Drop
  PROVE  RegsThere'
<1>1. RegsThere /\ Addresses \subseteq Addresses' /\ ProcOK /\ ~AtEnd /\ Running
  BY AddressesGrow DEF DeployInv, MinedInv, Next, Drop, Doing
<1>2. regs' = regs /\ network' = network BY DEF Drop, Raise
<1>3. CASE AllThere BY <1>1, <1>2, <1>3, StillThere DEF RegsThere
<1>4. CASE ~AllThere
  <2>1. PICK r \in Regs : Awaiting(r) BY <1>1, <1>4 DEF RegsThere
  <2>2. Current.op \in {"save", "put"} BY <2>1 DEF Awaiting
  <2>3. Raise BY <2>2 DEF Drop, Doing
  <2>4. Migration' = Migration /\ Code' = Code BY <1>2, <2>3 DEF Raise, Migration, Code
  <2>5. Len(Code) \in Nat BY <1>1, CurrentStep
  <2>6. CASE Migration[stage].catches
    <3>1. pc' = Len(Code) + 1 BY <2>3, <2>6 DEF Raise
    <3>2. AtEnd' BY <2>4, <2>5, <3>1 DEF AtEnd
    <3> QED BY <3>2 DEF RegsThere
  <2>7. CASE ~Migration[stage].catches
    BY <2>3, <2>7 DEF Raise, RegsThere, Running
  <2> QED BY <2>6, <2>7
<1> QED BY <1>3, <1>4

\* Every step keeps it.
LEMMA NextMined ==
  ASSUME DeployInv, MinedInv, [Next]_vars
  PROVE  MinedInv'
<1>1. Addresses \subseteq Addresses' /\ DOMAIN Existing \subseteq Addresses'
  BY AddressesGrow DEF MinedInv
<1>2. CASE Work BY <1>1, <1>2, WorkRegs, WorkBook, WorkDb DEF MinedInv
<1>3. CASE Drop
  <2>1. book' = book /\ db' = db BY <1>3 DEF Drop
  <2>2. BookThere' BY <1>1, <2>1 DEF MinedInv, BookThere, There
  <2>3. DbEntriesMined' BY <1>1, <2>1, EntriesStay DEF MinedInv
  <2> QED BY <1>1, <1>3, <2>2, <2>3, DropRegs DEF MinedInv
<1>4. CASE Crash
  <2>1. db' = db /\ outcome' = "crashed" BY <1>4 DEF Crash
  <2>2. \A p \in DOMAIN book' : (p \in DOMAIN book /\ book'[p] = book[p]) \/ book'[p] = NoSlots
    BY <1>4 DEF Crash, Mine
  <2>3. \A p \in DOMAIN book', s \in Slots : book'[p][s] = Nobody \/ book'[p][s] \in Addresses'
    BY <1>1, <2>2 DEF MinedInv, BookThere, There, NoSlots
  <2>4. BookThere' BY <2>3 DEF BookThere, There
  <2>5. RegsThere' BY <2>1 DEF RegsThere, Running
  <2>6. DbEntriesMined' BY <1>1, <2>1, EntriesStay DEF MinedInv
  <2> QED BY <1>1, <2>4, <2>5, <2>6 DEF MinedInv
<1>5. CASE Start
  <2>1. book' = book /\ db' = db /\ regs' = NoRegs BY <1>5 DEF Start, chainVars
  <2>2. BookThere' BY <1>1, <2>1 DEF MinedInv, BookThere, There
  <2>3. \A q \in Regs : regs'[q] = Nobody BY <2>1 DEF NoRegs
  <2>4. RegsThere' BY <2>3 DEF RegsThere, AllThere, There
  <2>5. DbEntriesMined' BY <1>1, <2>1, EntriesStay DEF MinedInv
  <2> QED BY <1>1, <2>2, <2>4, <2>5 DEF MinedInv
<1>6. CASE UNCHANGED vars
  <2>1. UNCHANGED <<network, chain, pending, book, db, stage, pc, regs, outcome>>
    BY <1>6 DEF vars, chainVars, procVars
  <2>2. /\ Addresses' = Addresses /\ NextAddress' = NextAddress /\ Code' = Code
        /\ Current' = Current
    BY <2>1 DEF Addresses, NextAddress, Code, Migration, Current
  <2>3. RegsThere'
    BY <2>1, <2>2 DEF MinedInv, RegsThere, AllThere, There, Awaiting, Holds, Running, AtEnd
  <2>4. BookThere' BY <2>1, <2>2 DEF MinedInv, BookThere, There
  <2>5. DbEntriesMined' BY <1>1, <2>1, EntriesStay DEF MinedInv
  <2> QED BY <1>1, <2>3, <2>4, <2>5 DEF MinedInv
<1> QED BY <1>2, <1>3, <1>4, <1>5, <1>6 DEF Next

LEMMA InitMined ==
  ASSUME Init
  PROVE  MinedInv
<1>1. /\ chain = Existing /\ db = KnownDbs[network] /\ network \in Networks
      /\ outcome = "idle" /\ DOMAIN book = {}
  BY DEF Init
<1>2. Addresses = DOMAIN Existing BY <1>1 DEF Addresses
<1>3. DbEntriesMined BY <1>1, <1>2, AddressesAssumption DEF DbEntriesMined, Nobody
<1> QED BY <1>1, <1>2, <1>3 DEF MinedInv, RegsThere, Running, BookThere

\* Whatever the tasks are and wherever the process dies or a transaction fails,
\* outside the keys that are written early the database never names a contract
\* that is not on the chain, as long as every creation is waited for by the
\* statement after it.
THEOREM EntriesMined == Spec => []DbEntriesMined
<1>1. DeployInv /\ MinedInv /\ [Next]_vars => MinedInv' BY NextMined
<1>2. MinedInv => DbEntriesMined BY DEF MinedInv
<1> QED BY <1>1, <1>2, InitMined, InvHolds, PTL DEF Spec
-----------------------------------------------------------------------------
(* Every start makes its market first.                                     *)
(*                                                                         *)
(* MarketFirstAssumption finds in every migration the two steps that make  *)
(* the provider of a start and enter it.  Before them a start knows no     *)
(* provider; between them it holds the creation it has sent; after them    *)
(* the only provider it knows is the one it has entered, the newest.       *)

Past(t, i) == stage > t \/ (stage = t /\ pc > i)

NewestNamed == Market \in Providers /\ \A q \in Providers : q <= Market

(* What is known of a start whose market is made at step i of task t.      *)
SiteInv(t, i) ==
    /\ (Running /\ Past(t, i + 1)) \/ outcome = "finished" => NewestNamed
    /\ Running /\ ~(stage = t /\ pc = i + 1) =>
         Provider = Nobody \/ (Past(t, i + 1) /\ Provider = Market)
    /\ (\E x \in DOMAIN pending : IsProvider(pending[x])) => Running /\ stage = t /\ pc = i + 1
    /\ Running /\ stage = t /\ pc = i + 1 =>
         Provider = NextAddress /\ Len(pending) = 1 /\ IsProvider(pending[1])

(* t and i are the steps that make the market.                             *)
Site(t, i) ==
    /\ t \in DOMAIN Migration /\ i \in DOMAIN Migration[t].code
    /\ MakesMarket(Migration, t, i)

MarketInv == \A t \in Nat, i \in Nat : Site(t, i) => SiteInv(t, i)

\* The tasks of a network are numbered, and so are their steps.
LEMMA SiteNumbers ==
  ASSUME ProcOK, NEW t, NEW i, Site(t, i)
  PROVE  /\ t \in Nat /\ i \in Nat /\ t # 0 /\ i # 0 /\ t <= Len(Migration)
         /\ i + 1 \in DOMAIN Migration[t].code
         /\ Migration[t].code \in Seq(StepRecord)
<1>1. Migration \in Seq(TaskRecord) BY MigrationIsTasks DEF ProcOK
<1>2. t \in 1..Len(Migration) /\ Migration[t] \in TaskRecord BY <1>1 DEF Site
<1>3. Migration[t].code \in Seq(StepRecord) BY <1>2 DEF TaskRecord
<1>4. i \in 1..Len(Migration[t].code) BY <1>3 DEF Site
<1>5. i + 1 \in DOMAIN Migration[t].code BY DEF Site, MakesMarket, Follows
<1> QED BY <1>1, <1>2, <1>3, <1>4, <1>5

\* Some step of every migration makes the market.
LEMMA SiteExists ==
  ASSUME ProcOK
  PROVE  \E t \in Nat, i \in Nat : Site(t, i)
<1>1. network \in Networks BY DEF ProcOK
<1>2. PICK t \in DOMAIN Migration : \E i \in DOMAIN Migration[t].code : MakesMarket(Migration, t, i)
  BY <1>1, MarketFirstAssumption DEF Migration
<1>3. PICK i \in DOMAIN Migration[t].code : MakesMarket(Migration, t, i) BY <1>2
<1>4. Site(t, i) BY <1>2, <1>3 DEF Site
<1> QED BY <1>4, SiteNumbers

\* The step the process is at, seen from the steps that make the market.
LEMMA StepAtSite ==
  ASSUME ProcOK, ~AtEnd, NEW t, NEW i, Site(t, i)
  PROVE  /\ stage = t => ~Migration[stage].catches
         /\ stage = t /\ pc = i =>
              /\ Current.op = "send" /\ Current.x = MarketKey
              /\ Current.r = "provider" /\ Current.when = {}
         /\ stage = t /\ pc = i + 1 =>
              /\ Current.op = "save" /\ Current.x = MarketKey
              /\ Current.r = "provider" /\ Current.when = {}
         /\ ~(stage = t /\ pc \in {i, i + 1}) =>
              /\ Current.op \in {"put", "save", "send"} => Current.x # MarketKey
              /\ Current.op \in {"set", "setProxy"} => Past(t, i + 1)
              /\ Assigns(Current) /\ Current.r = "provider" =>
                   Past(t, i + 1) /\ Current.op = "load" /\ Current.x = MarketKey
<1>1. /\ stage \in DOMAIN Migration /\ Migration \in Seq(TaskRecord)
      /\ pc \in 1..Len(Code) /\ Len(Code) \in Nat
  BY CurrentStep
<1>2. stage # 0 /\ Code = Migration[stage].code BY <1>1 DEF Code
<1>3. pc \in DOMAIN Migration[stage].code
  <2>1. Migration[stage] \in TaskRecord BY <1>1
  <2>2. Code \in Seq(StepRecord) BY <1>2, <2>1 DEF TaskRecord
  <2> QED BY <1>1, <1>2, <2>2
<1>4. Current = Migration[stage].code[pc] BY <1>2 DEF Current
<1>5. /\ ~Migration[t].catches
      /\ Migration[t].code[i].op = "send" /\ Migration[t].code[i].x = MarketKey
      /\ Migration[t].code[i].r = "provider" /\ Migration[t].code[i].when = {}
      /\ Migration[t].code[i + 1].op = "save" /\ Migration[t].code[i + 1].x = MarketKey
      /\ Migration[t].code[i + 1].r = "provider" /\ Migration[t].code[i + 1].when = {}
  BY DEF Site, MakesMarket, Follows
<1>6. ASSUME ~(stage = t /\ pc \in {i, i + 1})
      PROVE  /\ Current.op \in {"put", "save", "send"} => Current.x # MarketKey
             /\ Current.op \in {"set", "setProxy"} => Past(t, i + 1)
             /\ Assigns(Current) /\ Current.r = "provider" =>
                  Past(t, i + 1) /\ Current.op = "load" /\ Current.x = MarketKey
  BY <1>1, <1>3, <1>4, <1>6 DEF Site, MakesMarket, Past
<1> QED BY <1>4, <1>5, <1>6

\* The key of the market is one of the database's.
LEMMA MarketKeyIsId ==
  ASSUME ProcOK
  PROVE  MarketKey \in Ids
<1>1. PICK t \in Nat, i \in Nat : Site(t, i) BY SiteExists
<1> DEFINE code == Migration[t].code
<1>2. i + 1 \in DOMAIN code /\ t \in DOMAIN Migration BY <1>1, SiteNumbers DEF Site
<1>3. code[i + 1].op = "save" /\ code[i + 1].x = MarketKey
  BY <1>1 DEF Site, MakesMarket, Follows
<1>4. code[i + 1] \in StepsOf(Migration[t]) BY <1>2 DEF StepsOf
<1> HIDE DEF code
<1>5. code[i + 1] \in StepsOn(network) BY <1>2, <1>4 DEF StepsOn, Migration
<1>6. code[i + 1] \in StepsAnywhere BY <1>5 DEF StepsAnywhere, ProcOK
<1> QED BY <1>3, <1>6, DeployAssumption

\* No step changes the network, and so the tasks.
LEMMA TasksStay ==
  ASSUME [Next]_vars
  PROVE  network' = network /\ Migration' = Migration
<1>1. network' = network BY DEF Next, Work, Drop, Crash, Start, vars
<1> QED BY <1>1 DEF Migration

\* A statement without a condition is what the process executes.
LEMMA OnlyItsOperation ==
  ASSUME Work, ~AtEnd, Current.when = {}
  PROVE  /\ Current.op = "send" => Send
         /\ Current.op = "save" => Save
         /\ Current.op = "get" => GetSlot
         /\ Current.op = "config" => Configured
         /\ Current.op = "call" => Call
<1>1. Holds(Current) BY DEF Holds
<1>2. CASE Statement
  BY <1>1, <1>2 DEF Statement, SkipStep, Configured, Load, Need, Put, Send, SendProxy, Save,
     SetProxy, SetSlot, GetSlot, Upgrade, Call, Doing
<1>3. CASE VerifyEtherscanContract \/ RunTaskWithRetry
  BY <1>3 DEF VerifyEtherscanContract, RunTaskWithRetry, Doing
<1>4. CASE NextTask \/ Finish BY <1>4 DEF NextTask, Finish
<1> QED BY <1>2, <1>3, <1>4 DEF Work, Statement

\* How the process moves: on, out of a task that catches, out of the process,
\* into the next task, or to its end.
LEMMA Moves ==
  ASSUME DeployInv, Work \/ Drop
  PROVE  /\ Running
         /\ \/ ~AtEnd /\ stage' = stage /\ (pc' = pc \/ pc' = pc + 1) /\ outcome' = outcome
            \/ /\ ~AtEnd /\ stage' = stage /\ pc' = Len(Code) + 1 /\ outcome' = outcome
               /\ Migration[stage].catches /\ regs' = regs
            \/ outcome' = "aborted"
            \/ NextTask
            \/ Finish
<1>1. CASE Statement
  <2>1. Running /\ ~AtEnd /\ (Advance \/ Raise)
    BY <1>1, StatementMoves DEF Statement, SkipStep, Configured, Load, Need, Put, Send, SendProxy,
       Save, SetProxy, SetSlot, GetSlot, Upgrade, Call, Doing
  <2> QED BY <2>1 DEF Advance, Raise
<1>2. CASE VerifyEtherscanContract
  <2>1. Running /\ ~AtEnd BY <1>2 DEF VerifyEtherscanContract, Doing
  <2>2. Raise \/ UNCHANGED <<stage, pc, outcome>> BY <1>2 DEF VerifyEtherscanContract
  <2> QED BY <2>1, <2>2 DEF Raise
<1>3. CASE RunTaskWithRetry
  <2>1. Running /\ ~AtEnd /\ stage' = stage /\ outcome' = outcome
    BY <1>3 DEF RunTaskWithRetry, Doing
  <2>2. pc' = pc \/ pc' = pc + 1 BY <1>3 DEF RunTaskWithRetry
  <2> QED BY <2>1, <2>2
<1>4. CASE NextTask \/ Finish BY <1>4 DEF NextTask, Finish
<1>5. CASE Drop
  <2>1. Running /\ ~AtEnd /\ (Advance \/ Raise) BY <1>5 DEF Drop, Doing
  <2> QED BY <2>1 DEF Advance, Raise
<1> QED BY <1>1, <1>2, <1>3, <1>4, <1>5 DEF Work, Statement

\* A task that swallows no error is gone through step by step: a step of it is
\* passed from that step only, and come upon from the one before it.
LEMMA PassedInOrder ==
  ASSUME DeployInv, Work \/ Drop, Running', NEW t \in DOMAIN Migration,
         ~Migration[t].catches, NEW n \in DOMAIN Migration[t].code
  PROVE  /\ ~(stage = t /\ pc = n) => (Past(t, n)' <=> Past(t, n))
         /\ stage' = t /\ pc' = n /\ n # 1 => ~AtEnd /\ stage = t /\ pc \in {n, n - 1}
<1>1. ProcOK BY DEF DeployInv
<1>2. /\ Migration \in Seq(TaskRecord) /\ stage \in Nat
      /\ t \in Nat /\ t # 0 /\ Migration[t].code \in Seq(StepRecord)
  <2>1. Migration \in Seq(TaskRecord) BY <1>1, MigrationIsTasks DEF ProcOK
  <2>2. Migration[t] \in TaskRecord BY <2>1
  <2> QED BY <1>1, <2>1, <2>2 DEF ProcOK, TaskRecord
<1>3. n \in Nat /\ n >= 1 /\ n <= Len(Migration[t].code) BY <1>2
<1>4. pc \in Nat /\ Len(Code) \in Nat
  <2>1. CASE stage = 0 BY <1>1, <2>1 DEF Code, ProcOK
  <2>2. CASE stage # 0
    <3>1. Migration[stage] \in TaskRecord BY <1>1, <1>2, <2>2 DEF ProcOK
    <3>2. Code \in Seq(StepRecord) BY <2>2, <3>1 DEF Code, TaskRecord
    <3> QED BY <1>1, <3>2 DEF ProcOK
  <2> QED BY <2>1, <2>2
<1>5. stage = t => n <= Len(Code) BY <1>2, <1>3 DEF Code
<1>6. CASE ~AtEnd /\ stage' = stage /\ (pc' = pc \/ pc' = pc + 1)
  BY <1>2, <1>3, <1>4, <1>6 DEF Past
<1>7. CASE ~AtEnd /\ stage' = stage /\ Migration[stage].catches
  <2>1. stage # t BY <1>7
  <2> QED BY <1>2, <1>7, <2>1 DEF Past
<1>8. CASE NextTask
  <2>1. stage' = stage + 1 /\ pc' = 1 /\ pc > Len(Code) BY <1>8 DEF NextTask, AtEnd
  <2>2. stage = t => pc > n BY <1>3, <1>4, <1>5, <2>1
  <2> QED BY <1>2, <1>3, <2>1, <2>2 DEF Past
<1>9. CASE outcome' = "aborted" \/ Finish BY <1>9 DEF Running, Finish
<1> QED BY <1>6, <1>7, <1>8, <1>9, Moves

\* Away from the steps that make the market, a start neither comes upon the
\* one that enters it nor goes back before it.
LEMMA PastMoves ==
  ASSUME DeployInv, Work \/ Drop, NEW t, NEW i, Site(t, i), Running',
         ~(stage = t /\ pc \in {i, i + 1})
  PROVE  /\ Past(t, i + 1)' <=> Past(t, i + 1)
         /\ ~(stage' = t /\ pc' = i + 1)
<1>1. /\ i \in Nat /\ i # 0 /\ i + 1 \in DOMAIN Migration[t].code
      /\ t \in DOMAIN Migration /\ ~Migration[t].catches
  BY SiteNumbers DEF DeployInv, Site, MakesMarket
<1>2. i + 1 # 1 /\ i + 1 - 1 = i BY <1>1
<1> QED BY <1>1, <1>2, PassedInOrder

\* The creation of a provider, among those that are sent.
ProviderSent == \E x \in DOMAIN pending : IsProvider(pending[x])

\* Without such a creation there are the providers there were, and what they
\* say is only changed by a statement that sets a slot.
LEMMA ProvidersStay ==
  ASSUME DeployInv, [Next]_vars, ~ProviderSent
  PROVE  /\ Providers' = Providers /\ DOMAIN book' = DOMAIN book
         /\ book' = book \/ SetProxy \/ SetSlot
<1>1. ChainOK /\ ChainOK' BY NextInv DEF DeployInv, ChainInv
<1>2. Mine => book' = book BY DEF Mine, ProviderSent
<1>3. SetProxy \/ SetSlot => DOMAIN book' = DOMAIN book BY DEF SetProxy, SetSlot
<1>4. book' = book \/ SetProxy \/ SetSlot
  <2>1. CASE Work
    <3>1. SkipStep \/ Configured \/ Load \/ Need \/ Put \/ Send \/ SendProxy
            \/ VerifyEtherscanContract \/ RunTaskWithRetry \/ GetSlot \/ Upgrade \/ Call
            \/ NextTask \/ Finish => book' = book
      BY DEF SkipStep, Configured, Load, Need, Put, Send, SendProxy, VerifyEtherscanContract,
             RunTaskWithRetry, GetSlot, Upgrade, Call, NextTask, Finish, chainVars
    <3>2. Save => Mine BY DEF Save
    <3> QED BY <1>2, <2>1, <3>1, <3>2 DEF Work
  <2>2. CASE Drop BY <2>2 DEF Drop
  <2>3. CASE Crash BY <1>2, <2>3 DEF Crash
  <2>4. CASE Start BY <2>4 DEF Start, chainVars
  <2>5. CASE UNCHANGED vars BY <2>5 DEF vars, chainVars
  <2> QED BY <2>1, <2>2, <2>3, <2>4, <2>5 DEF Next
<1>5. DOMAIN book' = DOMAIN book BY <1>3, <1>4
<1>6. Providers' = Providers BY <1>1, <1>5 DEF ChainOK
<1> QED BY <1>4, <1>5, <1>6

\* Away from the steps that make the market, the database names the market it
\* named, no provider is sent, and the only provider a task finds is that one.
LEMMA ElsewhereStays ==
  ASSUME DeployInv, Work \/ Drop, NEW t, NEW i, Site(t, i), SiteInv(t, i),
         ~(stage = t /\ pc \in {i, i + 1})
  PROVE  /\ Market' = Market /\ ~ProviderSent /\ ~ProviderSent'
         /\ \/ Provider' = Provider
            \/ Provider' = Nobody
            \/ Past(t, i + 1) /\ Provider' = Market
<1>1. ProcOK /\ ValuesOK BY DEF DeployInv
<1>2. ~AtEnd =>
        /\ Current.op \in {"put", "save", "send"} => Current.x # MarketKey
        /\ Assigns(Current) /\ Current.r = "provider" =>
             Past(t, i + 1) /\ Current.op = "load" /\ Current.x = MarketKey
  BY <1>1, StepAtSite
<1>3. ~ProviderSent BY DEF SiteInv, ProviderSent
<1>4. MarketKey \in Ids /\ "provider" \in Regs BY <1>1, MarketKeyIsId, DeployAssumption
<1>5. Market = db[MarketKey] /\ Market' = db'[MarketKey] BY DEF Market, MarketKey
<1>6. \A r \in Regs, a \in Nat : Keep(r, a) => regs'["provider"] = IF r = "provider" THEN a ELSE regs["provider"]
  BY <1>1, <1>4 DEF Keep, ValuesOK
<1>7. \A op \in {"config", "load", "send", "sendProxy", "get"} :
        Doing(op) /\ op # "load" => Current.r # "provider"
  BY <1>2 DEF Doing, Assigns
<1>8. CASE UNCHANGED <<db, regs, pending>> BY <1>3, <1>5, <1>8 DEF ProviderSent, Provider
<1>9. CASE Configured
  <2>1. Current.r \in Regs /\ Current.r # "provider" BY <1>7, <1>9, DoingStep DEF Configured
  <2>2. Setting(Current.x) \in Nat
    BY <1>1, DeployAssumption DEF Setting, Config, ProcOK, Nobody
  <2>3. regs'["provider"] = regs["provider"] BY <1>6, <1>9, <2>1, <2>2 DEF Configured
  <2>4. UNCHANGED <<db, pending>> BY <1>9 DEF Configured, chainVars
  <2> QED BY <1>3, <1>5, <2>3, <2>4 DEF ProviderSent, Provider
<1>10. CASE Load
  <2>1. Current.r \in Regs /\ Current.x \in Ids /\ Current.op = "load" /\ ~AtEnd
    BY <1>10, DoingStep DEF Load
  <2>2. db[Current.x] \in Nat BY <1>1, <2>1 DEF ValuesOK
  <2>3. UNCHANGED <<db, pending>> BY <1>10 DEF Load, chainVars
  <2>4. regs' = regs \/ Keep(Current.r, db[Current.x]) BY <1>10 DEF Load, Raise
  <2>5. Current.r = "provider" => Past(t, i + 1) /\ Current.x = MarketKey
    BY <1>2, <2>1 DEF Assigns
  <2>6. regs'["provider"] = regs["provider"] \/ (Past(t, i + 1) /\ regs'["provider"] = db[MarketKey])
    BY <1>6, <2>1, <2>2, <2>4, <2>5
  <2> QED BY <1>3, <1>5, <2>3, <2>6 DEF ProviderSent, Provider
<1>11. CASE Put
  <2>1. /\ Current.op = "put" /\ ~AtEnd /\ UNCHANGED <<regs, pending>>
        /\ db' = [db EXCEPT ![Current.x] = Reg(Current.r)]
    BY <1>11 DEF Put, Doing, chainVars
  <2>2. db'[MarketKey] = db[MarketKey] BY <1>1, <1>2, <1>4, <2>1 DEF ValuesOK
  <2> QED BY <1>3, <1>5, <2>1, <2>2 DEF ProviderSent, Provider
<1>12. CASE Save
  <2>1. /\ Current.op = "save" /\ ~AtEnd /\ regs' = regs /\ pending' = <<>>
        /\ db' = [db EXCEPT ![Current.x] = Reg(Current.r)]
    BY <1>12 DEF Save, Doing, Mine
  <2>2. db'[MarketKey] = db[MarketKey] BY <1>1, <1>2, <1>4, <2>1 DEF ValuesOK
  <2>3. DOMAIN pending' = {} BY <2>1
  <2> QED BY <1>3, <1>5, <2>1, <2>2, <2>3 DEF ProviderSent, Provider
<1>13. CASE Send
  <2>1. /\ Current.r \in Regs /\ Current.r # "provider" /\ Current.x # MarketKey
    BY <1>2, <1>7, <1>13, DoingStep DEF Send
  <2>2. NextAddress \in Nat BY AddressesOK DEF DeployInv, ChainInv
  <2>3. regs'["provider"] = regs["provider"] BY <1>6, <1>13, <2>1, <2>2 DEF Send
  <2>4. /\ db' = db /\ DOMAIN pending' = {1} /\ pending'[1].kind = Current.x BY <1>13 DEF Send
  <2>5. ~ProviderSent' BY <2>1, <2>4 DEF ProviderSent, IsProvider, MarketKey
  <2> QED BY <1>3, <1>5, <2>3, <2>4, <2>5 DEF Provider
<1>14. CASE SendProxy
  <2>1. Current.r \in Regs /\ Current.r # "provider" BY <1>7, <1>14, DoingStep DEF SendProxy
  <2>2. NextAddress \in Nat BY AddressesOK DEF DeployInv, ChainInv
  <2>3. regs' = regs \/ Keep(Current.r, NextAddress) BY <1>14 DEF SendProxy, Raise
  <2>4. regs'["provider"] = regs["provider"] BY <1>6, <2>1, <2>2, <2>3
  <2>5. db' = db BY <1>14 DEF SendProxy
  <2>6. ~ProviderSent'
    <3>1. CASE pending' = pending BY <1>3, <3>1 DEF ProviderSent
    <3>2. CASE Reg("impl") \in Addresses
      <4>1. DOMAIN pending' = {1} /\ pending'[1].impl = Reg("impl") BY <1>14, <3>2 DEF SendProxy
      <4>2. Reg("impl") # Nobody BY <3>2, AddressesOK DEF DeployInv, ChainInv, Nobody
      <4> QED BY <4>1, <4>2 DEF ProviderSent, IsProvider
    <3> QED BY <1>14, <3>1, <3>2 DEF SendProxy
  <2> QED BY <1>3, <1>5, <2>4, <2>5, <2>6 DEF Provider
<1>15. CASE GetSlot
  <2>1. Current.r \in Regs /\ Current.r # "provider" /\ Current.x \in Slots
    BY <1>7, <1>15, DoingStep DEF GetSlot
  <2>2. UNCHANGED <<db, pending>> BY <1>15 DEF GetSlot, chainVars
  <2>3. regs' = regs \/ (HasProvider /\ Keep(Current.r, book[Provider][Current.x]))
    BY <1>15 DEF GetSlot, Raise
  <2>4. HasProvider => book[Provider][Current.x] \in Nat
    BY <2>1 DEF HasProvider, DeployInv, ChainInv, ChainOK
  <2>5. regs'["provider"] = regs["provider"] BY <1>6, <2>1, <2>3, <2>4
  <2> QED BY <1>3, <1>5, <2>2, <2>5 DEF ProviderSent, Provider
<1>16. CASE NextTask
  <2>1. UNCHANGED <<db, pending>> /\ regs' = NoRegs BY <1>16 DEF NextTask, chainVars
  <2>2. regs'["provider"] = Nobody BY <1>4, <2>1 DEF NoRegs
  <2> QED BY <1>3, <1>5, <2>1, <2>2 DEF ProviderSent, Provider
<1>17. CASE Drop
  <2>1. db' = db /\ regs' = regs /\ pending' = <<>> BY <1>17 DEF Drop, Raise
  <2>2. DOMAIN pending' = {} BY <2>1
  <2> QED BY <1>3, <1>5, <2>1, <2>2 DEF ProviderSent, Provider
<1>18. SkipStep \/ Need \/ VerifyEtherscanContract \/ RunTaskWithRetry \/ SetProxy \/ SetSlot
         \/ Upgrade \/ Call \/ Finish => UNCHANGED <<db, regs, pending>>
  BY DEF SkipStep, Need, VerifyEtherscanContract, RunTaskWithRetry, SetProxy, SetSlot,
         Upgrade, Call, Finish, Raise, chainVars
<1> QED BY <1>8, <1>9, <1>10, <1>11, <1>12, <1>13, <1>14, <1>15, <1>16, <1>17, <1>18 DEF Work

\* The market of a start is sent.
LEMMA MarketSent ==
  ASSUME DeployInv, Work, NEW t, NEW i, Site(t, i), SiteInv(t, i), stage = t, pc = i
  PROVE  SiteInv(t, i)'
<1>1. ProcOK /\ ValuesOK BY DEF DeployInv
<1>2. /\ t \in Nat /\ i \in Nat /\ i + 1 \in DOMAIN Migration[t].code /\ t # 0 /\ i \in DOMAIN Migration[t].code
      /\ Migration[t].code \in Seq(StepRecord)
  BY <1>1, SiteNumbers DEF Site
<1>3. ~AtEnd
  <2>1. Code = Migration[t].code BY <1>2 DEF Code
  <2> QED BY <1>2, <2>1 DEF AtEnd
<1>4. /\ Current.op = "send" /\ Current.x = MarketKey
      /\ Current.r = "provider" /\ Current.when = {}
  BY <1>1, <1>3, StepAtSite
<1>5. Send BY <1>3, <1>4, OnlyItsOperation
<1>6. /\ pc' = pc + 1 /\ stage' = stage /\ outcome' = outcome /\ outcome = "running"
      /\ chain' = chain /\ regs' = [regs EXCEPT !["provider"] = NextAddress]
      /\ pending' = <<[kind |-> MarketKey, impl |-> Nobody, admin |-> Deployer, of |-> Reg(Current.a)]>>
  BY <1>4, <1>5 DEF Send, Advance, Keep, Doing, Running
<1>7. NextAddress' = NextAddress BY <1>6 DEF NextAddress
<1>8. Provider' = NextAddress' BY <1>1, <1>6, <1>7, DeployAssumption DEF Provider, ValuesOK
<1>9. Len(pending') = 1 /\ IsProvider(pending'[1]) BY <1>6 DEF IsProvider, MarketKey
<1>10. stage' = t /\ pc' = i + 1 /\ outcome' = "running" BY <1>6
<1>11. ~Past(t, i + 1)' BY <1>2, <1>10 DEF Past
<1> QED BY <1>8, <1>9, <1>10, <1>11 DEF SiteInv, Running

\* The market of a start is made and entered: it is the newest of all.
LEMMA MarketEntered ==
  ASSUME DeployInv, Work, NEW t, NEW i, Site(t, i), SiteInv(t, i), stage = t, pc = i + 1
  PROVE  SiteInv(t, i)' /\ Market' = NextAddress /\ book'[NextAddress] = NoSlots
<1>1. ProcOK /\ ValuesOK /\ ChainOK BY DEF DeployInv, ChainInv
<1>2. /\ t \in Nat /\ i \in Nat /\ i + 1 \in DOMAIN Migration[t].code /\ t # 0
      /\ Migration[t].code \in Seq(StepRecord)
  BY <1>1, SiteNumbers
<1>3. ~AtEnd
  <2>1. Code = Migration[t].code BY <1>2 DEF Code
  <2> QED BY <1>2, <2>1 DEF AtEnd
<1>4. /\ Current.op = "save" /\ Current.x = MarketKey
      /\ Current.r = "provider" /\ Current.when = {}
  BY <1>1, <1>3, <1>2, StepAtSite
<1>5. Save BY <1>3, <1>4, OnlyItsOperation
<1>6. /\ pc' = pc + 1 /\ stage' = stage /\ outcome' = outcome /\ outcome = "running"
      /\ regs' = regs /\ Mine /\ pending' = <<>>
      /\ db' = [db EXCEPT ![MarketKey] = Reg("provider")]
  BY <1>4, <1>5 DEF Save, Advance, Doing, Running, Mine
<1>7. Provider = NextAddress /\ Len(pending) = 1 /\ IsProvider(pending[1])
  BY <1>6 DEF SiteInv, Running
<1>8. Market' = NextAddress /\ Provider' = NextAddress
  BY <1>1, <1>6, <1>7, MarketKeyIsId DEF Market, MarketKey, Provider, Reg, ValuesOK
<1>9. DOMAIN book' = DOMAIN book \union {NextAddress} /\ book'[NextAddress] = NoSlots
  <2>1. {c \in {pending[x] : x \in DOMAIN pending} : IsProvider(c)} # {}
    <3>1. pending[1] \in {pending[x] : x \in DOMAIN pending} BY <1>1, <1>7 DEF ChainOK
    <3> QED BY <1>7, <3>1
  <2>2. book' = [p \in DOMAIN book \union {NextAddress} |->
                   IF p \in DOMAIN book THEN book[p] ELSE NoSlots]
    BY <1>6, <2>1 DEF Mine
  <2>3. NextAddress \notin DOMAIN book BY <1>1, AddressesOK
  <2> QED BY <2>2, <2>3
<1>10. Providers' = Providers \union {NextAddress}
  <2>1. ChainOK' BY NextInv DEF DeployInv, ChainInv, Next
  <2> QED BY <1>1, <1>9, <2>1 DEF ChainOK
<1>11. \A q \in Providers : q <= NextAddress
  <2>1. \A q \in Addresses : q \in Nat /\ q <= NextAddress BY <1>1, AddressesOK DEF NextAddress
  <2> QED BY <1>1, <2>1, AddressesOK
<1>12. NextAddress \in Nat BY <1>1, AddressesOK
<1>13. NewestNamed' BY <1>8, <1>10, <1>11, <1>12 DEF NewestNamed
<1>14. stage' = t /\ pc' = i + 1 + 1 BY <1>6
<1>15. Past(t, i + 1)' /\ ~(stage' = t /\ pc' = i + 1) BY <1>2, <1>14 DEF Past
<1>16. DOMAIN pending' = {} BY <1>6
<1> QED BY <1>8, <1>9, <1>13, <1>15, <1>16 DEF SiteInv

\* Every step keeps what is known of the market of a start.
LEMMA NextSite ==
  ASSUME DeployInv, [Next]_vars, NEW t, NEW i, Site(t, i), SiteInv(t, i)
  PROVE  SiteInv(t, i)'
<1>1. ProcOK BY DEF DeployInv
<1>2. /\ t \in Nat /\ i \in Nat /\ t # 0 /\ i # 0 /\ t <= Len(Migration)
      /\ i + 1 \in DOMAIN Migration[t].code /\ i \in DOMAIN Migration[t].code
      /\ Migration[t].code \in Seq(StepRecord)
  BY <1>1, SiteNumbers DEF Site
<1>3. CASE Work \/ Drop
  <2>1. CASE Work /\ stage = t /\ pc = i BY <2>1, MarketSent
  <2>2. CASE Work /\ stage = t /\ pc = i + 1 BY <2>2, MarketEntered
  <2>3. CASE Drop /\ stage = t /\ pc \in {i, i + 1}
    <3>1. /\ ~AtEnd /\ pending' = <<>>
          /\ \E op \in {"save", "setProxy", "set", "upgrade", "call", "post"} : Current.op = op /\ (op # "post" => Raise)
      BY <2>3 DEF Drop, Doing
    <3>2. Raise /\ ~Migration[stage].catches BY <1>1, <2>3, <3>1, StepAtSite
    <3>3. outcome' = "aborted" BY <3>2 DEF Raise
    <3>4. DOMAIN pending' = {} BY <3>1
    <3> QED BY <3>3, <3>4 DEF SiteInv, Running
  <2>4. CASE ~(stage = t /\ pc \in {i, i + 1})
    <3>1. /\ Market' = Market /\ ~ProviderSent /\ ~ProviderSent'
          /\ \/ Provider' = Provider
             \/ Provider' = Nobody
             \/ Past(t, i + 1) /\ Provider' = Market
      BY <1>3, <2>4, ElsewhereStays
    <3>2. Providers' = Providers BY <1>3, <3>1, ProvidersStay DEF Next
    <3>3. Running /\ ~(stage = t /\ pc = i + 1) BY <1>3, <2>4, Moves
    <3>4. Running' => (Past(t, i + 1)' <=> Past(t, i + 1)) /\ ~(stage' = t /\ pc' = i + 1)
      BY <1>3, <2>4, PastMoves
    <3>5. outcome' = "finished" => NewestNamed
      <4> SUFFICES ASSUME outcome' = "finished" PROVE NewestNamed OBVIOUS
      <4>1. Finish BY <1>3, <3>3, Moves DEF NextTask, Running
      <4>2. stage = Len(Migration) /\ pc > Len(Code) BY <4>1 DEF Finish, AtEnd
      <4>3. Past(t, i + 1)
        <5>1. CASE stage = t
          <6>1. Code = Migration[t].code BY <1>2, <5>1 DEF Code
          <6>2. i + 1 <= Len(Code) BY <1>2, <6>1
          <6>3. pc > i + 1
            <7>1. pc \in Nat /\ Len(Code) \in Nat BY <1>1, <1>2, <6>1 DEF ProcOK
            <7> QED BY <1>2, <4>2, <6>2, <7>1
          <6> QED BY <5>1, <6>3 DEF Past
        <5>2. CASE stage # t
          <6>1. Len(Migration) \in Nat BY <1>1, MigrationIsTasks DEF ProcOK
          <6> QED BY <1>2, <4>2, <5>2, <6>1 DEF Past
        <5> QED BY <5>1, <5>2
      <4> QED BY <3>3, <4>3 DEF SiteInv
    <3>6. (Running' /\ Past(t, i + 1)') \/ outcome' = "finished" => NewestNamed'
      <4>1. Running' /\ Past(t, i + 1)' => NewestNamed BY <3>3, <3>4 DEF SiteInv
      <4> QED BY <3>1, <3>2, <3>5, <4>1 DEF NewestNamed
    <3>7. Running' => Provider' = Nobody \/ (Past(t, i + 1)' /\ Provider' = Market')
      BY <3>1, <3>3, <3>4 DEF SiteInv
    <3> QED BY <3>1, <3>4, <3>6, <3>7 DEF SiteInv, ProviderSent
  <2> QED BY <1>3, <2>1, <2>2, <2>3, <2>4
<1>4. CASE Crash
  <2>1. outcome' = "crashed" /\ pending' = <<>> BY <1>4 DEF Crash, Mine
  <2>2. DOMAIN pending' = {} BY <2>1
  <2> QED BY <2>1, <2>2 DEF SiteInv, Running
<1>5. CASE Start
  <2>1. /\ ~Running /\ stage' = 0 /\ regs' = NoRegs /\ pending' = pending /\ outcome' = "running"
    BY <1>5 DEF Start, chainVars
  <2>2. Provider' = Nobody BY <2>1, DeployAssumption DEF Provider, NoRegs
  <2>3. ~Past(t, i + 1)' /\ stage' # t BY <1>2, <2>1 DEF Past
  <2>4. ~ProviderSent' BY <2>1 DEF ProviderSent, SiteInv
  <2> QED BY <2>1, <2>2, <2>3, <2>4 DEF SiteInv, ProviderSent
<1>6. CASE UNCHANGED vars
  <2>1. UNCHANGED <<chain, pending, db, stage, pc, regs, outcome>>
    BY <1>6 DEF vars, chainVars, procVars
  <2> QED BY <2>1 DEF SiteInv, Running, Past, NewestNamed, Market, Providers, Addresses,
             IsProvider, Provider, NextAddress
<1> QED BY <1>3, <1>4, <1>5, <1>6 DEF Next

\* Every step keeps it, for all the steps that make markets.
LEMMA NextMarket ==
  ASSUME DeployInv, MarketInv, [Next]_vars
  PROVE  MarketInv'
<1>1. Migration' = Migration BY TasksStay
<1>2. \A t \in Nat, i \in Nat : Site(t, i)' => Site(t, i) BY <1>1 DEF Site
<1>3. \A t \in Nat, i \in Nat : Site(t, i) => SiteInv(t, i)' BY NextSite DEF MarketInv
<1> QED BY <1>2, <1>3 DEF MarketInv

\* It holds before the first start.
LEMMA InitMarket ==
  ASSUME Init
  PROVE  MarketInv
<1>1. outcome = "idle" /\ pending = <<>> BY DEF Init
<1>2. DOMAIN pending = {} BY <1>1
<1> QED BY <1>1, <1>2 DEF MarketInv, SiteInv, Running

\* The invariant holds in every state.
LEMMA MarketHolds == Spec => []MarketInv
<1>1. DeployInv /\ MarketInv /\ [Next]_vars => MarketInv' BY NextMarket
<1> QED BY <1>1, InitMarket, InvHolds, PTL DEF Spec

\* Whatever failed in this start or an earlier one, a migration that ends has
\* entered in the database a provider that is on the chain, and the newest: a
\* provider that a start made and lost in a crash is never the one it names.
THEOREM FinishedNamesNewest == Spec => [](outcome = "finished" => NewestNamed)
<1>1. DeployInv /\ MarketInv => (outcome = "finished" => NewestNamed)
  <2> SUFFICES ASSUME DeployInv, MarketInv, outcome = "finished" PROVE NewestNamed OBVIOUS
  <2>1. PICK t \in Nat, i \in Nat : Site(t, i) BY SiteExists DEF DeployInv
  <2> QED BY <2>1 DEF MarketInv, SiteInv
<1> QED BY <1>1, InvHolds, MarketHolds, PTL

(* A slot of an older market is never set again.                           *)
OldSlotsKept == [][\A p \in Providers : Superseded(p) => book'[p] = book[p]]_vars

\* The slots a statement sets are those of the market the database names.
LEMMA OnlyNewestSet ==
  ASSUME DeployInv, MarketInv, [Next]_vars, NEW p \in Providers, Superseded(p)
  PROVE  book'[p] = book[p]
<1>1. ProcOK /\ ChainOK /\ p \in DOMAIN book BY AddressesOK DEF DeployInv, ChainInv
<1>2. PICK t \in Nat, i \in Nat : Site(t, i) BY <1>1, SiteExists
<1>3. SiteInv(t, i) BY <1>2 DEF MarketInv
<1>4. Mine => book'[p] = book[p] BY <1>1 DEF Mine
<1>5. CASE SetProxy \/ SetSlot
  <2>1. Running /\ ~AtEnd /\ Current.op \in {"set", "setProxy"}
    BY <1>5 DEF SetProxy, SetSlot, Doing
  <2>2. ~(stage = t /\ pc \in {i, i + 1}) /\ Past(t, i + 1)
    BY <1>1, <1>2, <2>1, StepAtSite
  <2>3. Provider = Nobody \/ Provider = Market BY <1>3, <2>1, <2>2 DEF SiteInv
  <2>4. CASE book' # book
    <3>1. HasProvider BY <1>5, <2>4 DEF SetProxy, SetSlot
    <3>2. Provider = Market /\ NewestNamed
      BY <1>1, <1>3, <2>1, <2>2, <2>3, <3>1, AddressesOK DEF HasProvider, SiteInv, Nobody
    <3>3. p # Provider
      <4>1. \A q \in Providers : q \in Nat BY <1>1, AddressesOK
      <4>2. PICK q \in Providers : q > p BY DEF Superseded
      <4> QED BY <3>2, <4>1, <4>2 DEF NewestNamed
    <3>4. \/ book' = [book EXCEPT ![Provider][Current.x] = NextAddress]
          \/ book' = [book EXCEPT ![Provider][Current.x] = Reg(Current.r)]
      BY <1>5, <2>4 DEF SetProxy, SetSlot
    <3> QED BY <1>1, <3>3, <3>4
  <2> QED BY <2>4
<1>6. CASE book' = book BY <1>6
<1>7. CASE Work
  <2>1. SkipStep \/ Configured \/ Load \/ Need \/ Put \/ Send \/ SendProxy
          \/ VerifyEtherscanContract \/ RunTaskWithRetry \/ GetSlot \/ Upgrade \/ Call
          \/ NextTask \/ Finish => book' = book
    BY DEF SkipStep, Configured, Load, Need, Put, Send, SendProxy, VerifyEtherscanContract,
           RunTaskWithRetry, GetSlot, Upgrade, Call, NextTask, Finish, chainVars
  <2>2. Save => Mine BY DEF Save
  <2> QED BY <1>4, <1>5, <1>6, <1>7, <2>1, <2>2 DEF Work
<1>8. CASE Drop BY <1>6, <1>8 DEF Drop
<1>9. CASE Crash BY <1>4, <1>6, <1>9 DEF Crash
<1>10. CASE Start BY <1>6, <1>10 DEF Start, chainVars
<1>11. CASE UNCHANGED vars BY <1>6, <1>11 DEF vars, chainVars
<1> QED BY <1>7, <1>8, <1>9, <1>10, <1>11 DEF Next

\* Once there is a newer provider, made by a start that ended or by one that
\* died at once, no statement of any task sets a slot of an older one.
THEOREM OldMarketsKeepSlots == Spec => OldSlotsKept
<1>1. DeployInv /\ MarketInv /\ [Next]_vars
        => [\A p \in Providers : Superseded(p) => book'[p] = book[p]]_vars
  BY OnlyNewestSet
<1>2. Spec => [][\A p \in Providers : Superseded(p) => book'[p] = book[p]]_vars
  BY <1>1, InvHolds, MarketHolds, PTL DEF Spec
<1> QED BY <1>2 DEF OldSlotsKept

-----------------------------------------------------------------------------
(* No migration leaves its pool paused.                                    *)
(*                                                                         *)
(* A pause is a setting of a pool, made through the configurator of its    *)
(* provider; neither slot is ever given to anyone else.  Where a task      *)
(* looks up the configurator and lifts the pause, it is the configurator   *)
(* of the market the database names, which is the only one whose pool is   *)
(* that market's.                                                          *)

\* The market's pool is not among those that are paused.
NonePaused == \A f \in facts : f.what = "paused" => f.at # SlotOf(Market, "LendPool")

PausesKnown ==
    \A f \in facts : f.what = "paused" =>
      /\ f.of = Nobody /\ f.at # Nobody
      /\ \E q \in Providers : f.at = book[q]["LendPool"] /\ book[q]["LendPoolConfigurator"] # Nobody
      /\ \E s \in StepsOn(network) : Pauses(s)

(* The statements that lift the pause: task, lookup and call.              *)
Lifts(t, j, k) ==
    /\ t \in DOMAIN Migration /\ ~Migration[t].catches
    /\ j \in DOMAIN Migration[t].code /\ k \in DOMAIN Migration[t].code
    /\ LiftsPause(Migration[t].code, j, k)
    /\ \A u \in t..Len(Migration) : \A s \in StepsOf(Migration[u]) : ~Pauses(s)

LiftInv(t, j, k) ==
    /\ Running /\ stage = t /\ pc \in (j + 1)..k =>
         /\ Market \in DOMAIN book
         /\ regs[Migration[t].code[k].r] = book[Market]["LendPoolConfigurator"]
    /\ (Running /\ Past(t, k)) \/ outcome = "finished" => NonePaused

NoneIsNobody == "none" \in Regs => regs["none"] = Nobody

PauseInv ==
    /\ PausesKnown /\ NoneIsNobody
    /\ \A t \in Nat, j \in Nat, k \in Nat : Lifts(t, j, k) => LiftInv(t, j, k)

\* The pool and its configurator stand in slots the provider fills itself.
LEMMA PoolSlots ==
  /\ "LendPool" \in ProxiedSlots /\ "LendPoolConfigurator" \in ProxiedSlots
  /\ "LendPool" \in Slots /\ "LendPoolConfigurator" \in Slots
BY PausesAssumption, DeployAssumption

\* What stands in such a slot stays there.
LEMMA ProxiedStay ==
  ASSUME DeployInv, [Next]_vars
  PROVE  /\ Providers \subseteq Providers'
         /\ \A q \in Providers, s \in ProxiedSlots : book[q][s] # Nobody => book'[q][s] = book[q][s]
<1>1. /\ ChainOK /\ ChainOK' /\ DOMAIN book = Providers /\ DOMAIN book' = Providers'
      /\ DOMAIN Made = Providers /\ DOMAIN Made' = Providers'
  BY NextInv DEF DeployInv, ChainInv, ChainOK, Made
<1>2. /\ \A q \in Providers, s \in ProxiedSlots : Made[q][s] = book[q][s]
      /\ \A q \in Providers', s \in ProxiedSlots : Made'[q][s] = book'[q][s]
  BY <1>1 DEF Made
<1>3. /\ DOMAIN Made \subseteq DOMAIN Made'
      /\ \A q \in DOMAIN Made, s \in ProxiedSlots : Made[q][s] # Nobody => Made'[q][s] = Made[q][s]
  <2>1. CASE Made' = Made BY <2>1
  <2>2. CASE MarketsOf!Next
    <3>1. PICK m \in DOMAIN Made' :
            \/ /\ m \notin MarketsOf!Taken \union {MarketsOf!Nobody}
               /\ Made' = [n \in DOMAIN Made \union {m} |->
                             IF n \in DOMAIN Made THEN Made[n]
                             ELSE [s \in ProxiedSlots |-> MarketsOf!Nobody]]
            \/ \E s \in ProxiedSlots :
                 /\ m \in DOMAIN Made /\ Made[m][s] = MarketsOf!Nobody
                 /\ Made'[m][s] \notin MarketsOf!Taken \union {MarketsOf!Nobody}
                 /\ Made' = [Made EXCEPT ![m][s] = Made'[m][s]]
      BY <2>2, MarketsStep
    <3>2. CASE Made' = [n \in DOMAIN Made \union {m} |->
                          IF n \in DOMAIN Made THEN Made[n]
                          ELSE [s \in ProxiedSlots |-> MarketsOf!Nobody]]
      BY <3>2
    <3>3. ASSUME NEW x \in ProxiedSlots, m \in DOMAIN Made, Made[m][x] = MarketsOf!Nobody,
                 Made' = [Made EXCEPT ![m][x] = Made'[m][x]]
          PROVE  /\ DOMAIN Made \subseteq DOMAIN Made'
                 /\ \A q \in DOMAIN Made, s \in ProxiedSlots : Made[q][s] # Nobody => Made'[q][s] = Made[q][s]
      <4> DEFINE v == Made'[m][x]
      <4>1. DOMAIN Made' = DOMAIN Made BY <3>3
      <4>2. Made' = [Made EXCEPT ![m] = [Made[m] EXCEPT ![x] = v]] BY <3>3
      <4> HIDE DEF v
      <4>3. \A q \in DOMAIN Made : q # m => Made'[q] = Made[q] BY <4>2
      <4>4. Made'[m] = [Made[m] EXCEPT ![x] = v] BY <3>3, <4>2
      <4>5. \A s \in ProxiedSlots : s # x => Made'[m][s] = Made[m][s] BY <4>4
      <4>6. Made[m][x] = Nobody BY <3>3 DEF Nobody, MarketsOf!Nobody
      <4> QED BY <4>1, <4>3, <4>5, <4>6
    <3> QED BY <3>1, <3>2, <3>3
  <2> QED BY <2>1, <2>2, NextImplements
<1> QED BY <1>1, <1>2, <1>3

\* Two markets do not share a pool.
LEMMA PoolIsItsOwn ==
  ASSUME ChainInv, NEW p \in Providers, NEW q \in Providers,
         book[p]["LendPool"] = book[q]["LendPool"], book[p]["LendPool"] # Nobody
  PROVE  p = q
<1>1. chain[book[p]["LendPool"]].of = p /\ chain[book[q]["LendPool"]].of = q
  BY PoolSlots DEF ChainInv, ProxySlotsOwned
<1> QED BY <1>1

\* What is not paused stays so, unless somebody pauses it: a pool that the
\* provider has just got is new.
LEMMA NonePausedStays ==
  ASSUME DeployInv, PausesKnown, NonePaused, [Next]_vars, Market' = Market,
         \A f \in facts' : f.what = "paused" => f \in facts
  PROVE  NonePaused'
<1> SUFFICES ASSUME NEW f \in facts', f.what = "paused", f.at = SlotOf(Market, "LendPool")'
             PROVE  FALSE
  BY DEF NonePaused
<1>1. ChainInv /\ ChainInv' /\ ChainOK /\ ChainOK' BY NextInv DEF DeployInv, ChainInv
<1>2. PICK q \in Providers : f.at = book[q]["LendPool"] BY DEF PausesKnown
<1>3. f.at # Nobody /\ f.at # SlotOf(Market, "LendPool") BY DEF PausesKnown, NonePaused
<1>4. q \in Providers' /\ book'[q]["LendPool"] = f.at
  BY <1>2, <1>3, ProxiedStay, PoolSlots
<1>5. Market \in DOMAIN book' /\ book'[Market]["LendPool"] = f.at
  BY <1>3 DEF SlotOf
<1>6. Market \in Providers' BY <1>1, <1>5 DEF ChainOK
<1>7. \A p \in Providers' : book'[p]["LendPool"] # Nobody => chain'[book'[p]["LendPool"]].of = p
  BY <1>1, PoolSlots DEF ChainInv, ProxySlotsOwned
<1>8. Market = q BY <1>3, <1>4, <1>5, <1>6, <1>7
<1>9. Market \in DOMAIN book BY <1>1, <1>8 DEF ChainOK
<1> QED BY <1>2, <1>3, <1>8, <1>9 DEF SlotOf

\* The step the process is at is one of its task.
LEMMA CurrentIsOfTask ==
  ASSUME ProcOK, ~AtEnd
  PROVE  /\ Current \in StepsOf(Migration[stage]) /\ Current \in StepsOn(network)
         /\ stage \in DOMAIN Migration /\ pc \in DOMAIN Code /\ Code = Migration[stage].code
<1>1. stage \in DOMAIN Migration /\ Migration \in Seq(TaskRecord) /\ pc \in 1..Len(Code)
  BY CurrentStep
<1>2. stage # 0 /\ Code = Migration[stage].code BY <1>1 DEF Code
<1>3. Migration[stage] \in TaskRecord BY <1>1
<1>4. Code \in Seq(StepRecord) BY <1>2, <1>3 DEF TaskRecord
<1>5. pc \in DOMAIN Code BY <1>1, <1>4
<1>6. Current \in StepsOf(Migration[stage]) BY <1>2, <1>5 DEF Current, StepsOf
<1>7. Current \in StepsOn(network) BY <1>1, <1>6 DEF StepsOn, Migration
<1> QED BY <1>1, <1>2, <1>5, <1>6, <1>7

\* A register is written by the step that names it, or with all the others.
LEMMA RegistersAssigned ==
  ASSUME [Next]_vars
  PROVE  \/ regs' = regs \/ regs' = NoRegs
         \/ ~AtEnd /\ Assigns(Current) /\ \E a : Keep(Current.r, a)
<1>1. CASE Configured BY <1>1 DEF Configured, Doing, Assigns
<1>2. CASE Load
  <2>1. ~AtEnd /\ Assigns(Current) BY <1>2 DEF Load, Doing, Assigns
  <2> QED BY <1>2, <2>1 DEF Load, Raise
<1>3. CASE Send BY <1>3 DEF Send, Doing, Assigns
<1>4. CASE SendProxy
  <2>1. ~AtEnd /\ Assigns(Current) BY <1>4 DEF SendProxy, Doing, Assigns
  <2> QED BY <1>4, <2>1 DEF SendProxy, Raise
<1>5. CASE GetSlot
  <2>1. ~AtEnd /\ Assigns(Current) BY <1>5 DEF GetSlot, Doing, Assigns
  <2> QED BY <1>5, <2>1 DEF GetSlot, Raise
<1>6. CASE Work
  <2>1. SkipStep \/ Need \/ Put \/ Save \/ VerifyEtherscanContract \/ RunTaskWithRetry
          \/ SetProxy \/ SetSlot \/ Upgrade \/ Call \/ Finish => regs' = regs
    BY DEF SkipStep, Need, Put, Save, VerifyEtherscanContract, RunTaskWithRetry,
           SetProxy, SetSlot, Upgrade, Call, Finish, Raise
  <2>2. NextTask => regs' = NoRegs BY DEF NextTask
  <2> QED BY <1>1, <1>2, <1>3, <1>4, <1>5, <1>6, <2>1, <2>2 DEF Work
<1>7. CASE Drop BY <1>7 DEF Drop, Raise
<1>8. CASE Crash BY <1>8 DEF Crash
<1>9. CASE Start BY <1>9 DEF Start
<1>10. CASE UNCHANGED vars BY <1>10 DEF vars, procVars
<1> QED BY <1>6, <1>7, <1>8, <1>9, <1>10 DEF Next

\* The register of a call without an argument is never written.
LEMMA NoneStaysNobody ==
  ASSUME DeployInv, NoneIsNobody, [Next]_vars
  PROVE  NoneIsNobody'
<1>1. ProcOK /\ ValuesOK BY DEF DeployInv
<1>2. CASE regs' = regs BY <1>2 DEF NoneIsNobody
<1>3. CASE regs' = NoRegs BY <1>3 DEF NoneIsNobody, NoRegs
<1>4. ASSUME ~AtEnd, Assigns(Current), NEW a, Keep(Current.r, a)
      PROVE  NoneIsNobody'
  <2>1. Current \in StepsAnywhere BY <1>1, <1>4, CurrentStep
  <2>2. Current.r # "none" BY <1>4, <2>1, PausesAssumption
  <2> QED BY <1>1, <1>4, <2>2 DEF Keep, NoneIsNobody, ValuesOK
<1> QED BY <1>2, <1>3, <1>4, RegistersAssigned

\* A constructor pauses nothing.
LEMMA CreationsPauseNothing ==
  ASSUME Mine, NEW f \in facts', f.what = "paused"
  PROVE  f \in facts
<1>1. \A at, c : \A g \in Initialized(at, c) : g.what # "paused" BY DEF Initialized, Fact
<1>2. facts' = facts \union UNION {Initialized(NextAddress, c) : c \in {pending[i] : i \in DOMAIN pending}}
  BY DEF Mine
<1> QED BY <1>1, <1>2

\* What a call stores of a pause.
LEMMA StoredPause ==
  ASSUME NEW what, NEW c, NEW arg, NEW f \in Stored(what, c, arg), f.what = "paused", f \notin facts
  PROVE  what = "paused" /\ f = Fact(PoolOf(chain[c]), "paused", arg)
<1>1. what # "unpaused" BY DEF Stored
<1>2. what # "reserve" /\ what # "approve" BY DEF Stored, Fact
<1>3. CASE what \in PoolSettings
  <2>1. Stored(what, c, arg) = facts \union {Fact(PoolOf(chain[c]), what, arg)}
    BY <1>1, <1>2, <1>3 DEF Stored
  <2>2. f = Fact(PoolOf(chain[c]), what, arg) BY <2>1
  <2> QED BY <2>2 DEF Fact
<1>4. CASE what \notin PoolSettings
  <2>1. f = Fact(c, what, arg) \/ f = Fact(c, "pool", PoolOf(chain[c]))
    BY <1>4 DEF Stored, PoolSettings, PoolAdminSettings
  <2>2. what # "paused" BY <1>4 DEF PoolSettings
  <2> QED BY <2>1, <2>2 DEF Fact
<1> QED BY <1>3, <1>4

\* Who pauses a pool: a statement that says so, through the configurator of a
\* provider that has both.
LEMMA PausesMade ==
  ASSUME DeployInv, NoneIsNobody, [Next]_vars, NEW f \in facts', f.what = "paused", f \notin facts
  PROVE  /\ Work /\ ~AtEnd /\ Pauses(Current)
         /\ f.of = Nobody /\ f.at # Nobody
         /\ \E q \in Providers : f.at = book[q]["LendPool"] /\ book[q]["LendPoolConfigurator"] # Nobody
<1>1. ProcOK /\ ValuesOK /\ ChainOK BY DEF DeployInv, ChainInv
<1>2. Work /\ Call
  <2>1. CASE Work
    <3>1. SkipStep \/ Configured \/ Load \/ Need \/ Put \/ Send \/ SendProxy
            \/ VerifyEtherscanContract \/ RunTaskWithRetry \/ SetProxy \/ SetSlot \/ GetSlot
            \/ Upgrade \/ NextTask \/ Finish => facts' = facts
      BY DEF SkipStep, Configured, Load, Need, Put, Send, SendProxy, VerifyEtherscanContract,
             RunTaskWithRetry, SetProxy, SetSlot, GetSlot, Upgrade, NextTask, Finish, chainVars
    <3>2. ~Save BY CreationsPauseNothing DEF Save
    <3> QED BY <2>1, <3>1, <3>2 DEF Work
  <2>2. ~Drop BY DEF Drop
  <2>3. ~Crash BY CreationsPauseNothing DEF Crash
  <2>4. ~Start BY DEF Start, chainVars
  <2>5. ~UNCHANGED vars BY DEF vars, chainVars
  <2> QED BY <2>1, <2>2, <2>3, <2>4, <2>5 DEF Next
<1> DEFINE c == Reg(Current.r)
           arg == Reg(Current.a)
<1>3. /\ c \in Addresses /\ Allowed(Current.x, c, arg) /\ f \in Stored(Current.x, c, arg)
  BY <1>2 DEF Call
<1>4. PICK op \in {"call", "post"} : Doing(op) BY <1>2 DEF Call
<1>5. Current.x = "paused" /\ f = Fact(PoolOf(chain[c]), "paused", arg) BY <1>3, StoredPause
<1>6. ~AtEnd /\ Pauses(Current) BY <1>4, <1>5 DEF Doing, Pauses
<1>7. arg = Nobody
  <2>1. Current \in StepsAnywhere /\ Current.a \in Regs BY <1>4, DoingStep
  <2>2. Current.a = "none" BY <1>5, <2>1, PausesAssumption
  <2> QED BY <2>1, <2>2 DEF NoneIsNobody, Reg
<1>8. /\ SlotOf(chain[c].of, "LendPoolConfigurator") = c /\ PoolOf(chain[c]) # Nobody
  BY <1>3, <1>5 DEF Allowed, PoolSettings
<1>9. c # Nobody BY <1>1, <1>3, AddressesOK DEF Nobody
<1> HIDE DEF c, arg
<1>10. chain[c].of \in DOMAIN book BY <1>8, <1>9 DEF SlotOf
<1>11. /\ chain[c].of \in Providers
       /\ PoolOf(chain[c]) = book[chain[c].of]["LendPool"]
       /\ book[chain[c].of]["LendPoolConfigurator"] # Nobody
  BY <1>1, <1>8, <1>9, <1>10, AddressesOK DEF SlotOf, PoolOf
<1>12. f.at = PoolOf(chain[c]) /\ f.of = Nobody BY <1>5, <1>7 DEF Fact
<1> QED BY <1>2, <1>6, <1>8, <1>11, <1>12

\* Every pause is known.
LEMMA PausesStayKnown ==
  ASSUME DeployInv, PausesKnown, NoneIsNobody, [Next]_vars
  PROVE  PausesKnown'
<1> SUFFICES ASSUME NEW f \in facts', f.what = "paused"
             PROVE  /\ f.of = Nobody /\ f.at # Nobody
                    /\ \E q \in Providers' : f.at = book'[q]["LendPool"] /\ book'[q]["LendPoolConfigurator"] # Nobody
                    /\ \E s \in StepsOn(network') : Pauses(s)
  BY DEF PausesKnown
<1>1. network' = network BY TasksStay
<1>2. /\ f.of = Nobody /\ f.at # Nobody
      /\ \E q \in Providers : f.at = book[q]["LendPool"] /\ book[q]["LendPoolConfigurator"] # Nobody
      /\ \E s \in StepsOn(network) : Pauses(s)
  <2>1. CASE f \in facts BY <2>1 DEF PausesKnown
  <2>2. CASE f \notin facts
    <3>1. ~AtEnd /\ Pauses(Current) BY <2>2, PausesMade
    <3>2. Current \in StepsOn(network) BY <3>1, CurrentIsOfTask DEF DeployInv
    <3> QED BY <2>2, <3>1, <3>2, PausesMade
  <2> QED BY <2>1, <2>2
<1>3. PICK q \in Providers : f.at = book[q]["LendPool"] /\ book[q]["LendPoolConfigurator"] # Nobody
  BY <1>2
<1>4. /\ q \in Providers' /\ book'[q]["LendPool"] = f.at /\ book'[q]["LendPoolConfigurator"] # Nobody
  BY <1>2, <1>3, ProxiedStay, PoolSlots
<1> QED BY <1>1, <1>2, <1>4

\* The statements that lift the pause, and what stands between them.
LEMMA LiftSteps ==
  ASSUME ProcOK, NEW t \in Nat, NEW j \in Nat, NEW k \in Nat, Lifts(t, j, k)
  PROVE  /\ t \in DOMAIN Migration /\ ~Migration[t].catches /\ t # 0
         /\ j \in DOMAIN Migration[t].code /\ k \in DOMAIN Migration[t].code
         /\ 1 <= j /\ j < k /\ k <= Len(Migration[t].code)
         /\ k \in (j + 1)..k
         /\ \A l \in (j + 1)..k : l \in DOMAIN Migration[t].code /\ l # 1
         /\ Migration[t].code[k].r \in Regs
<1>1. Migration \in Seq(TaskRecord) BY MigrationIsTasks DEF ProcOK
<1>2. t \in DOMAIN Migration /\ Migration[t] \in TaskRecord BY <1>1 DEF Lifts
<1>3. Migration[t].code \in Seq(StepRecord) BY <1>2 DEF TaskRecord
<1>4. j < k BY DEF Lifts, LiftsPause
<1>5. DOMAIN Migration[t].code = 1..Len(Migration[t].code) /\ Len(Migration[t].code) \in Nat BY <1>3
<1>6. j \in DOMAIN Migration[t].code /\ k \in DOMAIN Migration[t].code /\ ~Migration[t].catches
  BY DEF Lifts
<1>7. t # 0 BY <1>1, <1>2
<1>8. Migration[t].code[k] \in StepRecord BY <1>3, <1>6
<1> QED BY <1>2, <1>4, <1>5, <1>6, <1>7, <1>8 DEF StepRecord

\* The step the process is at, seen from the statements that lift the pause.
LEMMA StepAtLift ==
  ASSUME ProcOK, ~AtEnd, NEW t \in Nat, NEW j \in Nat, NEW k \in Nat, Lifts(t, j, k), stage = t
  PROVE  /\ pc = j => Current.op = "get" /\ Current.x = "LendPoolConfigurator" /\ Current.when = {}
         /\ pc = k => Current.op = "call" /\ Current.x = "unpaused" /\ Current.when = {}
         /\ pc \in (j + 1)..(k - 1) => Current.op = "config" /\ Current.r # Migration[t].code[k].r
         /\ pc \in {j, k} => Current.r = Migration[t].code[k].r
<1>1. Current = Migration[t].code[pc] BY LiftSteps DEF Current, Code
<1> QED BY <1>1 DEF Lifts, LiftsPause

\* A lost transaction in that task ends the process.
LEMMA NoDropAtLift ==
  ASSUME ProcOK, ~AtEnd, NEW t \in Nat, NEW j \in Nat, NEW k \in Nat, Lifts(t, j, k), stage = t,
         pc \in j..k, Drop, Running'
  PROVE  FALSE
<1>1. pc \in Nat /\ (pc = j \/ pc = k \/ pc \in (j + 1)..(k - 1)) OBVIOUS
<1>2. Current.op \in {"get", "call", "config"} BY <1>1, StepAtLift
<1>3. Raise BY <1>2 DEF Drop, Doing
<1> QED BY <1>3, LiftSteps DEF Raise, Running

\* The provider a task finds is the one the database names.
LEMMA FoundIsMarket ==
  ASSUME DeployInv, MarketInv, Running, ~AtEnd, Current.op # "save", HasProvider
  PROVE  Provider = Market
<1>1. ProcOK /\ ChainOK BY DEF DeployInv, ChainInv
<1>2. PICK t \in Nat, i \in Nat : Site(t, i) BY <1>1, SiteExists
<1>3. ~(stage = t /\ pc = i + 1)
  <2>1. stage = t /\ pc = i + 1 => Current.op = "save" BY <1>1, <1>2, StepAtSite
  <2> QED BY <2>1
<1>4. Provider # Nobody BY <1>1, AddressesOK DEF HasProvider, Nobody
<1> QED BY <1>2, <1>3, <1>4 DEF MarketInv, SiteInv

\* The configurator that the task looks up is the one of the market the
\* database names.
LEMMA LookedUp ==
  ASSUME DeployInv, MarketInv, Work, NEW t \in Nat, NEW j \in Nat, NEW k \in Nat, Lifts(t, j, k),
         Running, ~AtEnd, stage = t, pc = j, Running'
  PROVE  /\ Market' \in DOMAIN book'
         /\ regs'[Migration[t].code[k].r] = book'[Market']["LendPoolConfigurator"]
<1>1. ProcOK /\ ValuesOK BY DEF DeployInv
<1>2. /\ Current.op = "get" /\ Current.x = "LendPoolConfigurator" /\ Current.when = {}
      /\ Current.r = Migration[t].code[k].r
  BY <1>1, StepAtLift
<1>3. GetSlot BY <1>2, OnlyItsOperation
<1>4. Raise => FALSE BY <1>1, LiftSteps DEF Raise, Running
<1>5. HasProvider /\ Keep(Current.r, book[Provider][Current.x]) /\ UNCHANGED <<book, db>>
  BY <1>3, <1>4 DEF GetSlot, chainVars
<1>6. Provider = Market BY <1>2, <1>5, FoundIsMarket
<1>7. Current.r \in Regs BY <1>3, DoingStep DEF GetSlot
<1>8. regs'[Current.r] = book[Market]["LendPoolConfigurator"]
  BY <1>1, <1>2, <1>5, <1>6, <1>7 DEF Keep, ValuesOK
<1> QED BY <1>2, <1>5, <1>6, <1>8 DEF HasProvider, Market

\* Up to the call the task only reads its configuration.
LEMMA KeptToCall ==
  ASSUME DeployInv, Work, NEW t \in Nat, NEW j \in Nat, NEW k \in Nat, Lifts(t, j, k), LiftInv(t, j, k),
         Running, ~AtEnd, stage = t, pc \in (j + 1)..(k - 1), Running'
  PROVE  /\ Market' \in DOMAIN book'
         /\ regs'[Migration[t].code[k].r] = book'[Market']["LendPoolConfigurator"]
<1>1. ProcOK /\ ValuesOK BY DEF DeployInv
<1>2. Current.op = "config" /\ Current.r # Migration[t].code[k].r BY <1>1, StepAtLift
<1>3. SkipStep \/ Configured
  <2>1. CASE Statement
    BY <1>2, <2>1 DEF Statement, SkipStep, Configured, Load, Need, Put, Send, SendProxy, Save,
       SetProxy, SetSlot, GetSlot, Upgrade, Call, Doing
  <2>2. CASE VerifyEtherscanContract \/ RunTaskWithRetry
    BY <1>2, <2>2 DEF VerifyEtherscanContract, RunTaskWithRetry, Doing
  <2>3. CASE NextTask \/ Finish BY <2>3 DEF NextTask, Finish
  <2> QED BY <2>1, <2>2, <2>3 DEF Work, Statement
<1>4. UNCHANGED <<book, db>> /\ (regs' = regs \/ Keep(Current.r, Setting(Current.x)))
  BY <1>3 DEF SkipStep, Configured, chainVars
<1>5. regs'[Migration[t].code[k].r] = regs[Migration[t].code[k].r]
  BY <1>1, <1>2, <1>4, LiftSteps DEF Keep, ValuesOK
<1>6. pc \in (j + 1)..k OBVIOUS
<1>7. Market \in DOMAIN book /\ regs[Migration[t].code[k].r] = book[Market]["LendPoolConfigurator"]
  BY <1>6 DEF LiftInv
<1> QED BY <1>4, <1>5, <1>7 DEF Market

\* A pool that is paused and stands in the slot of a market is that market's,
\* and so is the configurator beside it.
LEMMA PausedOfMarket ==
  ASSUME ChainInv, PausesKnown, NEW f \in facts, f.what = "paused",
         Market \in DOMAIN book, f.at = SlotOf(Market, "LendPool")
  PROVE  LET c == book[Market]["LendPoolConfigurator"]
         IN  c \in Addresses /\ chain[c].of = Market
<1>1. Market \in Providers BY DEF ChainInv, ChainOK
<1>2. PICK q \in Providers : f.at = book[q]["LendPool"] /\ book[q]["LendPoolConfigurator"] # Nobody
  BY DEF PausesKnown
<1>3. f.at # Nobody /\ f.at = book[Market]["LendPool"] BY DEF PausesKnown, SlotOf
<1>4. q = Market BY <1>1, <1>2, <1>3, PoolIsItsOwn
<1> QED BY <1>1, <1>2, <1>4, PoolSlots DEF ChainInv, ProxySlotsOwned

\* The call lifts the pause, or the process ends with its error.
LEMMA Lifted ==
  ASSUME DeployInv, PausesKnown, NoneIsNobody, Work,
         NEW t \in Nat, NEW j \in Nat, NEW k \in Nat, Lifts(t, j, k), LiftInv(t, j, k),
         Running, ~AtEnd, stage = t, pc = k, Running'
  PROVE  NonePaused'
<1> DEFINE c == Reg(Current.r)
           arg == Reg(Current.a)
           pool == SlotOf(Market, "LendPool")
<1>1. ProcOK /\ ValuesOK /\ ChainInv BY DEF DeployInv
<1>2. /\ Current.op = "call" /\ Current.x = "unpaused" /\ Current.when = {}
      /\ Current.r = Migration[t].code[k].r
  BY <1>1, StepAtLift
<1>3. Call BY <1>2, OnlyItsOperation
<1>4. k \in (j + 1)..k BY <1>1, LiftSteps
<1>5. Market \in DOMAIN book /\ c = book[Market]["LendPoolConfigurator"]
  BY <1>2, <1>4 DEF LiftInv, Reg
<1>6. UNCHANGED <<book, db>> BY <1>3 DEF Call
<1>7. Market' = Market /\ SlotOf(Market, "LendPool")' = pool BY <1>6 DEF Market, SlotOf
<1>8. Raise => FALSE BY <1>1, LiftSteps DEF Raise, Running
<1>9. /\ c \notin Addresses => facts' = facts
      /\ c \in Addresses => facts' = Stored("unpaused", c, arg)
  BY <1>2, <1>3, <1>8 DEF Call
<1> SUFFICES ASSUME NEW f \in facts', f.what = "paused", f.at = pool
             PROVE  FALSE
  BY <1>7 DEF NonePaused
<1>10. facts' \subseteq facts
  BY <1>9 DEF Stored
<1>11. c \in Addresses /\ chain[c].of = Market
  BY <1>1, <1>5, <1>10, PausedOfMarket
<1>12. facts' = facts \ {Fact(PoolOf(chain[c]), "paused", arg)} BY <1>9, <1>11 DEF Stored
<1>13. arg = Nobody
  <2>1. Current \in StepsAnywhere /\ Current.a \in Regs
    BY <1>1, CurrentStep DEF StepRecord
  <2>2. Current.a = "none" BY <1>2, <2>1, PausesAssumption
  <2> QED BY <2>1, <2>2 DEF NoneIsNobody, Reg
<1>14. f.of = Nobody BY <1>10 DEF PausesKnown
<1>15. PoolOf(chain[c]) = pool BY <1>11 DEF PoolOf
<1>16. f = Fact(pool, "paused", Nobody)
  <2>1. f \in [at : Nat, what : FactNames, of : Nat] BY <1>1, <1>10 DEF ChainInv, FactsOK
  <2> QED BY <1>14, <2>1 DEF Fact
<1> QED BY <1>12, <1>13, <1>15, <1>16

\* Past the call nothing pauses the market's pool: no statement does, and the
\* pool of a market that has just been made is nobody.
LEMMA LiftedStays ==
  ASSUME DeployInv, MarketInv, PausesKnown, NoneIsNobody, NonePaused, Work \/ Drop,
         NEW t \in Nat, NEW j \in Nat, NEW k \in Nat, Lifts(t, j, k), Past(t, k)
  PROVE  NonePaused'
<1>1. ProcOK BY DEF DeployInv
<1>2. Work \/ Drop => Next BY DEF Next
<1>3. ASSUME NEW f \in facts', f.what = "paused"
      PROVE  f \in facts
  <2> SUFFICES ASSUME f \notin facts PROVE FALSE OBVIOUS
  <2>1. ~AtEnd /\ Pauses(Current) BY <1>2, <1>3, PausesMade
  <2>2. Current \in StepsOf(Migration[stage]) /\ stage \in DOMAIN Migration
    BY <1>1, <2>1, CurrentIsOfTask
  <2>3. stage \in t..Len(Migration)
    BY <1>1, <2>2, MigrationIsTasks DEF Past, ProcOK
  <2> QED BY <2>1, <2>2, <2>3 DEF Lifts
<1>4. PICK u \in Nat, i \in Nat : Site(u, i) BY <1>1, SiteExists
<1>5. SiteInv(u, i) BY <1>4 DEF MarketInv
<1>6. CASE Market' = Market BY <1>2, <1>3, <1>6, NonePausedStays
<1>7. CASE Market' # Market
  <2>1. stage = u /\ pc \in {i, i + 1} BY <1>4, <1>5, <1>7, ElsewhereStays
  <2>2. Work
    <3>1. ~Drop BY <1>7 DEF Drop, Market
    <3> QED BY <3>1
  <2>3. CASE pc = i
    <3>1. ~AtEnd
      <4>1. /\ u # 0 /\ i \in DOMAIN Migration[u].code /\ Migration[u].code \in Seq(StepRecord)
        BY <1>1, <1>4, SiteNumbers DEF Site
      <4>2. Code = Migration[u].code BY <2>1, <4>1 DEF Code
      <4> QED BY <2>3, <4>1, <4>2 DEF AtEnd
    <3>2. Send BY <1>1, <1>4, <2>1, <2>2, <2>3, <3>1, StepAtSite, OnlyItsOperation
    <3> QED BY <1>7, <3>2 DEF Send, Market
  <2>4. CASE pc = i + 1
    <3>1. Market' = NextAddress /\ book'[NextAddress] = NoSlots
      BY <1>4, <1>5, <2>1, <2>2, <2>4, MarketEntered
    <3>2. SlotOf(Market, "LendPool")' = Nobody BY <3>1, PoolSlots DEF SlotOf, NoSlots
    <3>3. \A f \in facts : f.what = "paused" => f.at # Nobody BY DEF PausesKnown
    <3> QED BY <1>3, <3>2, <3>3 DEF NonePaused
  <2> QED BY <2>1, <2>3, <2>4
<1> QED BY <1>6, <1>7

\* Every step keeps what is known of the statements that lift a pause.
LEMMA NextLift ==
  ASSUME DeployInv, MarketInv, PausesKnown, NoneIsNobody, [Next]_vars,
         NEW t \in Nat, NEW j \in Nat, NEW k \in Nat, Lifts(t, j, k), LiftInv(t, j, k)
  PROVE  LiftInv(t, j, k)'
<1>1. ProcOK BY DEF DeployInv
<1>2. Migration' = Migration BY TasksStay
<1>3. t # 0 /\ j < k /\ k <= Len(Migration[t].code) /\ Migration[t].code \in Seq(StepRecord)
  <2>1. Migration \in Seq(TaskRecord) BY <1>1, MigrationIsTasks DEF ProcOK
  <2>2. Migration[t] \in TaskRecord BY <1>1, <2>1, LiftSteps
  <2> QED BY <1>1, <2>2, LiftSteps DEF TaskRecord
<1>4. /\ k \in (j + 1)..k /\ k \in j..k
      /\ \A n \in (j + 1)..k : n \in j..k /\ n - 1 \in j..k
  BY <1>3
<1>5. CASE Work \/ Drop
  <2>1. ASSUME NEW n \in (j + 1)..k, Running', stage' = t, pc' = n
        PROVE  Market' \in DOMAIN book' /\ regs'[Migration[t].code[k].r] = book'[Market']["LendPoolConfigurator"]
    <3>1. ~AtEnd /\ stage = t /\ pc \in {n, n - 1}
      <4>1. /\ t \in DOMAIN Migration /\ ~Migration[t].catches
            /\ n \in DOMAIN Migration[t].code /\ n # 1
        BY <1>1, LiftSteps
      <4> QED BY <1>5, <2>1, <4>1, PassedInOrder
    <3>2. Running BY <1>5, Moves
    <3>3. pc \in j..k BY <1>4, <2>1, <3>1
    <3>4. Work BY <1>1, <1>5, <2>1, <3>1, <3>3, NoDropAtLift
    <3>5. CASE pc = j BY <2>1, <3>1, <3>2, <3>4, <3>5, LookedUp
    <3>6. CASE pc \in (j + 1)..(k - 1) BY <2>1, <3>1, <3>2, <3>4, <3>6, KeptToCall
    <3>7. CASE pc = k
      <4>1. Current.op = "call" /\ Current.when = {} BY <1>1, <3>1, <3>7, StepAtLift
      <4>2. Call BY <3>1, <3>4, <4>1, OnlyItsOperation
      <4>3. UNCHANGED <<book, db, regs>> BY <4>2 DEF Call
      <4> QED BY <1>4, <3>1, <3>2, <3>7, <4>3 DEF LiftInv, Market
    <3> QED BY <3>3, <3>5, <3>6, <3>7
  <2>2. ASSUME Running', Past(t, k)'
        PROVE  NonePaused'
    <3>1. Running BY <1>5, Moves
    <3>2. CASE stage = t /\ pc = k
      <4>1. ~AtEnd
        <5>1. Code = Migration[t].code BY <1>3, <3>2 DEF Code
        <5> QED BY <1>3, <3>2, <5>1 DEF AtEnd
      <4>2. Work BY <1>1, <1>5, <1>4, <2>2, <3>2, <4>1, NoDropAtLift
      <4> QED BY <2>2, <3>1, <3>2, <4>1, <4>2, Lifted
    <3>3. CASE ~(stage = t /\ pc = k)
      <4>1. Past(t, k) BY <1>1, <1>5, <2>2, <3>3, LiftSteps, PassedInOrder
      <4>2. NonePaused BY <3>1, <4>1 DEF LiftInv
      <4> QED BY <1>5, <4>1, <4>2, LiftedStays
    <3> QED BY <3>2, <3>3
  <2>3. ASSUME outcome' = "finished"
        PROVE  NonePaused'
    <3>1. Running /\ Finish BY <1>5, <2>3, Moves DEF NextTask, Running
    <3>2. Past(t, k)
      <4>1. stage = Len(Migration) /\ pc > Len(Code) BY <3>1 DEF Finish, AtEnd
      <4>2. t \in DOMAIN Migration /\ Migration \in Seq(TaskRecord)
        BY <1>1, LiftSteps, MigrationIsTasks DEF ProcOK
      <4>3. CASE stage = t
        <5>1. Code = Migration[t].code BY <1>3, <4>3 DEF Code
        <5>2. pc > k BY <1>1, <1>3, <4>1, <5>1 DEF ProcOK
        <5> QED BY <4>3, <5>2 DEF Past
      <4>4. CASE stage # t BY <4>1, <4>2, <4>4 DEF Past
      <4> QED BY <4>3, <4>4
    <3>3. NonePaused BY <3>1, <3>2 DEF LiftInv
    <3>4. UNCHANGED <<book, facts, db>> BY <3>1 DEF Finish, chainVars
    <3> QED BY <3>3, <3>4 DEF NonePaused, SlotOf, Market
  <2> QED BY <1>2, <2>1, <2>2, <2>3 DEF LiftInv
<1>6. CASE Crash BY <1>6 DEF Crash, LiftInv, Running
<1>7. CASE Start
  <2>1. outcome' = "running" /\ stage' = 0 BY <1>7 DEF Start
  <2>2. ~Past(t, k)' /\ stage' # t BY <1>3, <2>1 DEF Past
  <2> QED BY <2>1, <2>2 DEF LiftInv
<1>8. CASE UNCHANGED vars
  BY <1>2, <1>8 DEF vars, chainVars, procVars, LiftInv, Running, Past, NonePaused, SlotOf, Market
<1> QED BY <1>5, <1>6, <1>7, <1>8 DEF Next

\* Every step keeps it, for all the statements that lift a pause.
LEMMA NextPause ==
  ASSUME DeployInv, MarketInv, PauseInv, [Next]_vars
  PROVE  PauseInv'
<1>1. PausesKnown' /\ NoneIsNobody' BY PausesStayKnown, NoneStaysNobody DEF PauseInv
<1>2. Migration' = Migration BY TasksStay
<1>3. \A t \in Nat, j \in Nat, k \in Nat : Lifts(t, j, k)' => Lifts(t, j, k) BY <1>2 DEF Lifts
<1>4. \A t \in Nat, j \in Nat, k \in Nat : Lifts(t, j, k) => LiftInv(t, j, k)'
  BY NextLift DEF PauseInv
<1> QED BY <1>1, <1>3, <1>4 DEF PauseInv

\* It holds before the first start.
LEMMA InitPause ==
  ASSUME Init
  PROVE  PauseInv
<1>1. outcome = "idle" /\ facts = {} /\ regs = NoRegs BY DEF Init
<1> QED BY <1>1 DEF PauseInv, PausesKnown, NoneIsNobody, NoRegs, LiftInv, Running

\* The invariant holds in every state.
LEMMA PauseHolds == Spec => []PauseInv
<1>1. DeployInv /\ MarketInv /\ PauseInv /\ [Next]_vars => PauseInv' BY NextPause
<1> QED BY <1>1, InitPause, InvHolds, MarketHolds, PTL DEF Spec

\* A migration that ends has not left its pool paused, whatever failed in this
\* start or an earlier one: also when the task that pauses the pool stopped half
\* way and its error was swallowed, or an earlier start died while it was paused.
THEOREM NeverLeftPaused == Spec => []PoolUnpaused
<1>1. DeployInv /\ PauseInv => PoolUnpaused
  <2> SUFFICES ASSUME DeployInv, PauseInv, outcome = "finished",
                      NEW f \in facts, f.what = "paused", f.at = SlotOf(Market, "LendPool")
               PROVE  FALSE
    BY DEF PoolUnpaused
  <2>1. network \in Networks BY DEF DeployInv, ProcOK
  <2>2. \E s \in StepsOn(network) : Pauses(s) BY DEF PauseInv, PausesKnown
  <2>3. PICK t \in DOMAIN Migration :
          /\ ~Migration[t].catches
          /\ \E k \in DOMAIN Migration[t].code : \E j \in DOMAIN Migration[t].code :
               LiftsPause(Migration[t].code, j, k)
          /\ \A u \in t..Len(Migration) : \A s \in StepsOf(Migration[u]) : ~Pauses(s)
    BY <2>1, <2>2, PausesAssumption DEF Migration
  <2>4. PICK k \in DOMAIN Migration[t].code, j \in DOMAIN Migration[t].code :
          LiftsPause(Migration[t].code, j, k)
    BY <2>3
  <2>5. t \in Nat /\ j \in Nat /\ k \in Nat
    <3>1. Migration \in Seq(TaskRecord) BY <2>1, MigrationIsTasks
    <3>2. Migration[t] \in TaskRecord /\ t \in Nat BY <3>1
    <3>3. Migration[t].code \in Seq(StepRecord) BY <3>2 DEF TaskRecord
    <3> QED BY <3>2, <3>3
  <2>6. Lifts(t, j, k) BY <2>3, <2>4 DEF Lifts
  <2>7. NonePaused BY <2>5, <2>6 DEF PauseInv, LiftInv
  <2> QED BY <2>7 DEF NonePaused
<1> QED BY <1>1, InvHolds, PauseHolds, PTL
=============================================================================
