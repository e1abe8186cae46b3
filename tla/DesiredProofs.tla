--------------------------- MODULE DesiredProofs ---------------------------
(***************************************************************************)
(* TreeWhole and ReportTrue of Desired, for any number of generations and  *)
(* of stops, and any set of steps that may fail.  Two things are assumed:  *)
(* nginx re-reads its files before the agent's next step, and the          *)
(* container is not stopped in the middle of the swap.                     *)
(***************************************************************************)
EXTENDS Desired, TLAPS

(* The steps between which the tree is not of one generation. *)
Swap == {"store2", "pages", "pages2", "conf", "conf2"}

Types ==
    /\ published \in Nat /\ updates \in Seq(Nat) /\ gen \in Nat /\ pending \in Nat
    /\ pc \in PCs \cup {"down"} /\ hup \in BOOLEAN
    /\ applied \in [rev : Nat, apply : {"none", "ok", "apply_failed"}]
    /\ store \in Part /\ pages \in Part /\ pstore \in Part /\ ppages \in Part
    /\ conf \in Conf /\ pconf \in Conf
    /\ nginx \in [up : BOOLEAN, gen : Part, store : Part, pages : Part, refused : Part]

(* A store, pages and an nginx.conf that belong together. *)
Matched(s, p, c) ==
    /\ s = p /\ (c.gen \in {0, None} \/ c.gen = s)
    /\ c.paths = "live" => c.gen # None

(* At each step of Apply, where the generation before and the new one are. *)
Places ==
    /\ pc \notin Swap => Matched(store, pages, conf)
    /\ pc = "store2" => Matched(pstore, pages, conf)
    /\ pc \in {"pages", "pages2", "conf", "conf2"} => store = gen
    /\ pc = "pages" => Matched(pstore, pages, conf)
    /\ pc = "pages2" => Matched(pstore, ppages, conf)
    /\ pc \in {"conf", "conf2"} => pages = gen
    /\ pc = "conf" => Matched(pstore, ppages, conf)
    /\ pc = "conf2" => Matched(pstore, ppages, pconf)
    /\ pc \in {"rewrite", "reload", "clean"} => store = gen /\ pages = gen /\ conf.gen = gen
    /\ pc \in {"reload", "clean"} => conf.paths = "live"

(* What nginx runs, and how the report follows it. *)
Runs ==
    /\ nginx.gen # 0 => nginx.store = nginx.gen /\ nginx.pages = nginx.gen
    /\ hup => pc = "clean"
    /\ pc = "clean" /\ ~hup => gen \in {nginx.gen, nginx.refused}
    /\ pc \notin {"clean", "down"} /\ applied.apply = "ok" => applied.rev \in {nginx.gen, nginx.refused}
    /\ pc = "down" => applied.apply = "none"

IInv == Types /\ Places /\ Runs

-----------------------------------------------------------------------------
(* The initial state, with the stub and an empty tree, has the invariant.  *)
LEMMA InitInv == Init => IInv
<1> SUFFICES ASSUME Init PROVE IInv
  OBVIOUS
<1>1. None \in Part /\ 0 \in Part /\ Stub \in Conf /\ NoConf \in Conf
  BY DEF Part, None, Stub, NoConf, Conf
<1>a. hup \in BOOLEAN /\ nginx.up \in BOOLEAN
  BY Zenon DEF Init
<1>b. nginx \in [up : BOOLEAN, gen : Part, store : Part, pages : Part, refused : Part]
  BY <1>1, <1>a DEF Init
<1>2. Types
  BY <1>1, <1>a, <1>b DEF Init, Types, PCs
<1>3. Places /\ Runs
  BY DEF Init, Places, Runs, Matched, Swap, Stub, None
<1> QED BY <1>2, <1>3 DEF IInv

(* A failed attempt only changes the report and the follower: with the     *)
(* tree put back, the invariant holds between attempts.                    *)
LEMMA FailedInv ==
    ASSUME IInv, Failed, ~hup, pc # "down", pc # "clean",
           store' \in Part, pages' \in Part, pstore' \in Part, ppages' \in Part,
           conf' \in Conf, pconf' \in Conf, Matched(store, pages, conf)'
    PROVE  IInv'
<1>1. Types'
  BY DEF IInv, Types, Failed, PCs
<1>2. Places'
  BY DEF Failed, Places, Swap
<1>3. Runs'
  BY DEF IInv, Types, Runs, Failed
<1> QED BY <1>1, <1>2, <1>3 DEF IInv

(* Every step of the agent, of nginx and of the container keeps it. *)
LEMMA StepInv ==
    ASSUME Prompt = TRUE, CrashAt \cap Swap = {}
    PROVE  IInv /\ [Next]_vars => IInv'
<1> SUFFICES ASSUME IInv, [Next]_vars PROVE IInv'
  OBVIOUS
<1> USE DEF Step, Goto
<1>1. CASE Publish
  <2>1. Types'
    BY <1>1 DEF Publish, IInv, Types, follower, tree
  <2> QED BY <1>1, <2>1 DEF Publish, IInv, Places, Runs, Matched, follower, tree
<1>2. CASE TakePack
  <2>1. Head(updates) \in Nat /\ Tail(updates) \in Seq(Nat)
    BY <1>2 DEF TakePack, IInv, Types
  <2>2. Types'
    BY <1>2, <2>1 DEF TakePack, handle, IInv, Types, tree, PCs
  <2>3. Places' /\ Runs'
    BY <1>2 DEF TakePack, handle, IInv, Places, Runs, Matched, Swap, tree
  <2> QED BY <2>2, <2>3 DEF IInv
<1>3. CASE Retry
  <2>1. Types'
    BY <1>3 DEF Retry, handle, IInv, Types, tree, PCs
  <2>2. Places' /\ Runs'
    BY <1>3 DEF Retry, handle, IInv, Places, Runs, Matched, Swap, tree
  <2> QED BY <2>1, <2>2 DEF IInv
<1>4. ASSUME NEW from \in {"fetch", "build", "test"}, NEW next \in {"build", "test", "store"},
             Prepare(from, next)
      PROVE  IInv'
  <2>1. CASE Goto(next)
    BY <1>4, <2>1 DEF Prepare, IInv, Types, Places, Runs, Matched, Swap, tree, PCs
  <2>2. CASE Failed
    BY <1>4, <2>2, FailedInv DEF Prepare, IInv, Types, Places, Matched, Swap, tree
  <2> QED BY <1>4, <2>1, <2>2 DEF Prepare
<1>5. CASE StoreAside
  BY <1>5 DEF StoreAside, IInv, Types, Places, Runs, Matched, Swap, PCs, Part, None
<1>6. CASE StoreSwap
  <2>1. CASE Failed /\ store' = pstore /\ pstore' = None
    BY <1>6, <2>1, FailedInv DEF StoreSwap, IInv, Types, Places, Runs, Matched, Swap, Part
  <2>2. CASE store' = gen /\ Goto("pages") /\ UNCHANGED pstore
    BY <1>6, <2>2 DEF StoreSwap, IInv, Types, Places, Runs, Matched, Swap, PCs, Part
  <2> QED BY <1>6, <2>1, <2>2 DEF StoreSwap
<1>7. CASE PagesAside
  BY <1>7 DEF PagesAside, IInv, Types, Places, Runs, Matched, Swap, PCs, Part, None
<1>8. CASE PagesSwap
  <2>1. CASE Failed /\ pages' = ppages /\ ppages' = None /\ store' = pstore /\ pstore' = None
    BY <1>8, <2>1, FailedInv DEF PagesSwap, IInv, Types, Places, Runs, Matched, Swap, Part
  <2>2. CASE pages' = gen /\ Goto("conf") /\ UNCHANGED <<store, pstore, ppages>>
    BY <1>8, <2>2 DEF PagesSwap, IInv, Types, Places, Runs, Matched, Swap, PCs, Part
  <2> QED BY <1>8, <2>1, <2>2 DEF PagesSwap
<1>9. CASE ConfAside
  BY <1>9 DEF ConfAside, IInv, Types, Places, Runs, Matched, Swap, PCs, Part, Conf, NoConf, None
<1>10. CASE ConfSwap
  <2>1. CASE Failed /\ conf' = pconf /\ pconf' = NoConf
             /\ store' = pstore /\ pstore' = None /\ pages' = ppages /\ ppages' = None
    BY <1>10, <2>1, FailedInv DEF ConfSwap, IInv, Types, Places, Runs, Matched, Swap, Part, Conf, NoConf, None
  <2>2. CASE conf' = [gen |-> gen, paths |-> "staging"] /\ Goto("rewrite")
             /\ UNCHANGED <<store, pages, pstore, ppages, pconf>>
    BY <1>10, <2>2 DEF ConfSwap, IInv, Types, Places, Runs, Matched, Swap, PCs, Part, Conf
  <2> QED BY <1>10, <2>1, <2>2 DEF ConfSwap
<1>11. CASE Rewrite
  <2>1. CASE conf' = [gen |-> gen, paths |-> "live"] /\ Goto("reload")
    BY <1>11, <2>1 DEF Rewrite, IInv, Types, Places, Runs, Matched, Swap, PCs, Part, Conf, None
  <2>2. CASE conf' \in {conf, Torn} /\ Failed
    BY <1>11, <2>2, FailedInv DEF Rewrite, IInv, Types, Places, Runs, Matched, Swap, Part, Conf, Torn, None
  <2> QED BY <1>11, <2>1, <2>2 DEF Rewrite
<1>12. CASE Reload
  <2>1. CASE Failed
    BY <1>12, <2>1, FailedInv, Zenon DEF Reload, IInv, Types, Places, Runs, Matched, Swap,
       tree
  <2>2. CASE hup' = TRUE /\ pc' = "clean"
             /\ UNCHANGED <<gen, pending, delay, applied, published, updates, nginx, crashes>>
    BY <1>12, <2>2 DEF Reload, IInv, Types, Places, Runs, Matched, Swap, PCs, tree
  <2> QED BY <1>12, <2>1, <2>2, Zenon DEF Reload
<1>13. CASE Clean
  BY <1>13 DEF Clean, IInv, Types, Places, Runs, Matched, Swap, PCs, Part, Conf, NoConf, None
<1>14. CASE NginxReloads
  <2>a. conf.gen \in Part /\ store \in Part /\ pages \in Part /\ None \in Part
    BY DEF IInv, Types, Conf, Part, None
  <2>b. nginx' \in [up : BOOLEAN, gen : Part, store : Part, pages : Part, refused : Part]
    <3>1. CASE nginx' = Loaded(conf)
      <4>1. TRUE \in BOOLEAN
        OBVIOUS
      <4>2. nginx.refused \in Part
        BY DEF IInv, Types
      <4> QED BY <3>1, <4>1, <4>2, <2>a DEF Loaded
    <3>2. CASE nginx' = [nginx EXCEPT !.refused = conf.gen]
      BY <3>2, <2>a DEF IInv, Types
    <3> QED BY <1>14, <3>1, <3>2 DEF NginxReloads
  <2>c. hup' \in BOOLEAN
    BY <1>14, Zenon DEF NginxReloads
  <2>1. Types'
    BY <1>14, <2>b, <2>c DEF NginxReloads, IInv, Types, follower, tree
  <2>2. Places'
    BY <1>14 DEF NginxReloads, IInv, Places, Matched, follower, tree
  <2>3. Runs'
    BY <1>14 DEF NginxReloads, Loadable, Loaded, Stub, IInv, Types, Places, Runs, follower, tree
  <2> QED BY <2>1, <2>2, <2>3 DEF IInv
<1>15. CASE Crash
  <2>1. pc \notin Swap
    BY <1>15 DEF Crash
  <2>a. None \in Part /\ 0 \in Part
    BY DEF Part, None
  <2>b. nginx' \in [up : BOOLEAN, gen : Part, store : Part, pages : Part, refused : Part]
    BY <1>15, <2>a DEF Crash
  <2>c. hup' \in BOOLEAN
    BY <1>15, Zenon DEF Crash
  <2>2. Types'
    BY <1>15, <2>b, <2>c DEF Crash, IInv, Types, tree
  <2>3. Places' /\ Runs'
    BY <1>15, <2>1, Zenon DEF Crash, IInv, Places, Runs, Matched, Swap, tree
  <2> QED BY <2>2, <2>3 DEF IInv
<1>16. CASE Entrypoint
  <2>1. BootConf \in Conf /\ Matched(store, pages, BootConf)
    BY <1>16 DEF Entrypoint, BootConf, IInv, Types, Places, Matched, Swap, Stub, Conf, Part, None
  <2>2. Types'
    BY <1>16, <2>1 DEF Entrypoint, Loaded, IInv, Types, PCs, Part, Conf, None
  <2>3. Places'
    BY <1>16, <2>1 DEF Entrypoint, Places, Matched, Swap
  <2>4. Runs'
    BY <1>16, <2>1 DEF Entrypoint, Loadable, Loaded, Stub, IInv, Types, Runs, Matched
  <2> QED BY <2>2, <2>3, <2>4 DEF IInv
<1>17. CASE UNCHANGED vars
  BY <1>17 DEF vars, IInv, Types, Places, Runs, Matched
<1> QED
  BY <1>1, <1>2, <1>3, <1>4, <1>5, <1>6, <1>7, <1>8, <1>9, <1>10, <1>11, <1>12, <1>13, <1>14, <1>15,
     <1>16, <1>17 DEF Next, AgentStep, FetchBlobs, Build, Test

-----------------------------------------------------------------------------
(* nginx loads no mixture of generations and every attempt of Apply, failed *)
(* wherever it may, leaves one generation in the tree.                      *)
THEOREM TreeStaysWhole ==
    ASSUME Prompt = TRUE, CrashAt \cap Swap = {}
    PROVE  Spec => []TreeWhole
<1>1. IInv => TreeWhole
  BY DEF IInv, Places, Runs, Matched, Swap, TreeWhole
<1> QED BY InitInv, StepInv, <1>1, PTL DEF Spec

(* Between attempts a report of ok names what nginx runs or has refused.    *)
THEOREM ReportStaysTrue ==
    ASSUME Prompt = TRUE, CrashAt \cap Swap = {}
    PROVE  Spec => []ReportTrue
<1>1. IInv => ReportTrue
  BY DEF IInv, Runs, ReportTrue
<1> QED BY InitInv, StepInv, <1>1, PTL DEF Spec
=============================================================================
