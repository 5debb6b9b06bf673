----------------------------- MODULE BootProofs -----------------------------
(***************************************************************************)
(* Theorems about LinkMonitor and Boot, for every set of modes.            *)
(*                                                                         *)
(* StaleModeIsNoticed speaks of the thread between two polls.  It lasts    *)
(* because a loss of the link cannot pass unnoticed: from the PHY's reset  *)
(* on, a PHY without a link still owes the driver a status read of 0.      *)
(*                                                                         *)
(* Boot does nothing to the link that LinkMonitor does not, so what holds  *)
(* of every behaviour of LinkMonitor holds of the firmware.  That nothing  *)
(* is used before it is set up rests on how far the set-up has come: the   *)
(* steps behind the wait for the DMA's reset are reached only through all  *)
(* of those before, and only after an attempt that succeeded.              *)
(***************************************************************************)
EXTENDS Boot, TLAPS

(***************************************************************************)
(* LinkMonitor                                                             *)
(***************************************************************************)
\* Since the reset a PHY whose link is down has its latch set.
LossIsLatched == pc /= "boot" => phy_up \/ latch

\* Nobody reads the status between the reset and the first poll.
ResetIsLatched == pc \in {"stack", "up"} => latch

\* The MAC is in the PHY's mode wherever the driver relies on it.
ModeIsFresh ==
  /\ pc \in {"idle", "start"}
  /\ pc = "idle" => link_up
  /\ phy_up /\ ~latch
  /\ conf /= "error"
  => mac_mode = phy_mode

IInv ==
  /\ TypeOK
  /\ LossIsLatched
  /\ ResetIsLatched
  /\ ModeIsFresh

-----------------------------------------------------------------------------
LEMMA InitIInv == Init => IInv
  BY DEF Init, IInv, TypeOK, LossIsLatched, ResetIsLatched, ModeIsFresh

\* What happens outside the driver.
LEMMA OutsideStep ==
  IInv /\ (Replug \/ Negotiate \/ Disturb) => IInv'
<1> SUFFICES ASSUME IInv, Replug \/ Negotiate \/ Disturb
             PROVE  IInv'
  OBVIOUS
<1> USE DEF IInv, TypeOK, LossIsLatched, ResetIsLatched, ModeIsFresh, netif
<1>1. CASE Replug
  BY <1>1 DEF Replug
<1>2. CASE Negotiate
  \* a new mode comes behind a loss that is still latched
  BY <1>2 DEF Negotiate
<1>3. CASE Disturb
  BY <1>3 DEF Disturb
<1> QED BY <1>1, <1>2, <1>3

\* Start-up and the polls of ethernetif_set_link.
LEMMA PollStep ==
  /\ IInv
  /\ \/ PhyReset \/ SystemInit \/ SystemInitFails \/ LowLevelInit \/ SetUp
     \/ SetLinkDown \/ SetLinkUp \/ SetLinkSame
  => IInv'
<1> SUFFICES ASSUME IInv,
                    \/ PhyReset \/ SystemInit \/ SystemInitFails
                    \/ LowLevelInit \/ SetUp
                    \/ SetLinkDown \/ SetLinkUp \/ SetLinkSame
             PROVE  IInv'
  OBVIOUS
<1> USE DEF IInv, TypeOK, LossIsLatched, ResetIsLatched, ModeIsFresh,
            netif, phy
<1>1. CASE SystemInit
  BY <1>1 DEF SystemInit
<1>2. CASE LowLevelInit
  BY <1>2 DEF LowLevelInit
<1>3. CASE SetLinkDown
  BY <1>3 DEF SetLinkDown, StatusRead
<1>4. CASE SetLinkUp
  BY <1>4 DEF SetLinkUp, StatusRead
<1>5. CASE SetLinkSame
  \* with the link up on both sides nothing was latched before the read
  BY <1>5 DEF SetLinkSame, StatusRead, Linked
<1>6. CASE PhyReset
  BY <1>6 DEF PhyReset
<1>7. CASE SetUp
  BY <1>7 DEF SetUp
<1>8. CASE SystemInitFails
  BY <1>8 DEF SystemInitFails
<1> QED BY <1>1, <1>2, <1>3, <1>4, <1>5, <1>6, <1>7, <1>8

\* ethernetif_update_config and emac_speed_config.
LEMMA ConfigStep ==
  IInv /\ (AwaitLink \/ AwaitNego \/ GiveUp \/ SetMode \/ Start) => IInv'
<1> SUFFICES ASSUME IInv,
                    AwaitLink \/ AwaitNego \/ GiveUp \/ SetMode \/ Start
             PROVE  IInv'
  OBVIOUS
<1> USE DEF IInv, TypeOK, LossIsLatched, ResetIsLatched, ModeIsFresh,
            netif, phy
<1>1. CASE AwaitLink
  BY <1>1 DEF AwaitLink, StatusRead
<1>2. CASE AwaitNego
  BY <1>2 DEF AwaitNego, StatusRead
<1>3. CASE GiveUp
  BY <1>3 DEF GiveUp, Fail, StatusRead
<1>4. CASE SetMode
  \* without a link the mode stays, and the loss is latched
  BY <1>4 DEF SetMode
<1>5. CASE Start
  BY <1>5 DEF Start
<1> QED BY <1>1, <1>2, <1>3, <1>4, <1>5

LEMMA NextIInv == IInv /\ [Next]_vars => IInv'
<1> SUFFICES ASSUME IInv, [Next]_vars
             PROVE  IInv'
  OBVIOUS
<1>1. CASE UNCHANGED vars
  BY <1>1 DEF IInv, TypeOK, LossIsLatched, ResetIsLatched, ModeIsFresh,
              vars, phy, netif
<1>2. CASE Next
  BY <1>2, OutsideStep, PollStep, ConfigStep DEF Next, Thread
<1> QED BY <1>1, <1>2

-----------------------------------------------------------------------------
(***************************************************************************)
(* The inductive invariant of the link supervision: type correctness, and  *)
(* that a loss of the link stays latched until the driver has acted on it. *)
(***************************************************************************)
THEOREM Inductive == Spec => []IInv
<1>1. Init => IInv
  BY InitIInv
<1>2. IInv /\ [Next]_vars => IInv'
  BY NextIInv
<1> QED BY <1>1, <1>2, PTL DEF Spec

\* Every variable keeps its type, the MAC's mode one of the modes among them.
THEOREM TypeCorrect == Spec => []TypeOK
<1>1. IInv => TypeOK
  BY DEF IInv
<1> QED BY <1>1, Inductive, PTL

(***************************************************************************)
(* A MAC left in another mode than the PHY's is bound to be noticed by a   *)
(* later poll, unless emac_speed_config reported an error.                 *)
(***************************************************************************)
THEOREM StaleModeIsNoticedAlways == Spec => []StaleModeIsNoticed
<1>1. IInv => StaleModeIsNoticed
  BY DEF IInv, ModeIsFresh, StaleModeIsNoticed
<1> QED BY <1>1, Inductive, PTL

-----------------------------------------------------------------------------
(***************************************************************************)
(* Boot                                                                    *)
(***************************************************************************)
LEMMA StepImplementsLinkMonitor == [BootNext]_bootVars => [Next]_vars
<1> SUFFICES ASSUME [BootNext]_bootVars
             PROVE  [Next]_vars
  OBVIOUS
<1>1. CASE Main
  BY <1>1 DEF Main, ClockStep, StartScheduler
<1>2. CASE NetSetup
  BY <1>2 DEF NetSetup, NvicConfiguration, PinsConfiguration,
     Layer2Configuration, AwaitDmaReset, PhyInit, PhyFails, DmaConfiguration,
     TmrInit, LwipInit, SetMacAddress, DescriptorLists, EmacStart, NetifSetUp,
     SetLinkCallback, HelloworldInit, Configure, Next, Thread
<1>3. CASE LinkCallback \/ LinkTimeout \/ RoundEnds
  BY <1>3 DEF LinkCallback, LinkTimeout, RoundEnds, Next, Thread
<1>4. CASE Led
  BY <1>4 DEF Led, LedInit, LedToggle
<1>5. CASE Settle \/ Tick \/ \E t \in Tasks : Wake(t)
  BY <1>5 DEF Settle, Tick, Wake
<1>6. CASE Outside
  BY <1>6 DEF Outside, Next
<1>7. CASE UNCHANGED bootVars
  BY <1>7 DEF bootVars
<1> QED BY <1>1, <1>2, <1>3, <1>4, <1>5, <1>6, <1>7 DEF BootNext, Net

(***************************************************************************)
(* The start-up of the firmware, its scheduler and its other task change   *)
(* nothing about the link supervision: Boot implements LinkMonitor.        *)
(***************************************************************************)
THEOREM BootImplementsLinkMonitor == BootSpec => Spec
<1>1. BootInit => Init
  BY DEF BootInit
<1>2. [BootNext]_bootVars => [Next]_vars
  BY StepImplementsLinkMonitor
<1> QED BY <1>1, <1>2, PTL DEF BootSpec, Spec

(***************************************************************************)
(* In the whole firmware, too, a MAC that is left in another mode than the *)
(* PHY's is bound to be noticed.                                           *)
(***************************************************************************)
THEOREM BootNoticesStaleMode == BootSpec => []StaleModeIsNoticed
  BY BootImplementsLinkMonitor, StaleModeIsNoticedAlways, PTL

-----------------------------------------------------------------------------
\* Types of what Boot adds to the link supervision.
BoardType ==
  /\ at \in Steps
  /\ settled \in BOOLEAN
  /\ done \in SUBSET Things
  /\ run \in Tasks \union {"main", "idle"}
  /\ ready \in SUBSET Tasks
  /\ run \in Tasks => run \in ready
  /\ led \in BOOLEAN

\* A task that goes to sleep hands the CPU to one that does not.
LEMMA SleepType ==
  ASSUME ready \in SUBSET Tasks, NEW t \in Tasks, Sleep(t)
  PROVE  /\ run' \in Tasks \union {"main", "idle"}
         /\ ready' \in SUBSET Tasks
         /\ run' \in Tasks => run' \in ready'
  BY DEF Sleep, Tasks

LEMMA BoardTypeStep == BoardType /\ [BootNext]_bootVars => BoardType'
<1> SUFFICES ASSUME BoardType, [BootNext]_bootVars
             PROVE  BoardType'
  OBVIOUS
<1> USE DEF BoardType, board, cpu
<1>1. CASE Main
  BY <1>1 DEF Main, ClockStep, StartScheduler, Steps, Tasks
<1>2. CASE NetSetup
  BY <1>2 DEF NetSetup, NvicConfiguration, PinsConfiguration,
     Layer2Configuration, AwaitDmaReset, PhyInit, PhyFails, DmaConfiguration,
     TmrInit, LwipInit, SetMacAddress, DescriptorLists, EmacStart, NetifSetUp,
     SetLinkCallback, HelloworldInit, Configure, Steps, Things, EmacRegisters
<1>3. CASE LinkCallback \/ LinkTimeout
  BY <1>3 DEF LinkCallback, LinkTimeout
<1>4. CASE RoundEnds
  BY <1>4, SleepType DEF RoundEnds, Tasks
<1>5. CASE Led
  BY <1>5, SleepType DEF Led, LedInit, LedToggle, Tasks, Things
<1>6. CASE Settle \/ Tick \/ \E t \in Tasks : Wake(t)
  BY <1>6 DEF Settle, Tick, Wake, Tasks
<1>7. CASE Outside
  BY <1>7 DEF Outside
<1>8. CASE UNCHANGED bootVars
  BY <1>8 DEF bootVars
<1> QED BY <1>1, <1>2, <1>3, <1>4, <1>5, <1>6, <1>7, <1>8 DEF BootNext, Net

(***************************************************************************)
(* Type correctness of the firmware's start-up, tasks and link supervision *)
(* for every set of modes; in particular a task that runs is ready.        *)
(***************************************************************************)
THEOREM BootTypeCorrect == BootSpec => []BootTypeOK
<1>1. BootInit => BoardType
  BY DEF BootInit, BoardType, Steps, Tasks
<1>2. BoardType /\ [BootNext]_bootVars => BoardType'
  BY BoardTypeStep
<1>3. BootTypeOK <=> TypeOK /\ BoardType
  BY DEF BootTypeOK, BoardType
<1> QED
  BY <1>1, <1>2, <1>3, BootImplementsLinkMonitor, TypeCorrect, PTL DEF BootSpec

-----------------------------------------------------------------------------
\* The steps from reset to each thing, and those that follow a success.
ToNvic  == {"hext", "pll", "switch", "tasks", "nvic"}
ToPins  == ToNvic \union {"pins"}
ToReset == ToPins \union {"layer2"}
Running == {"up", "callback", "listen", "loop"}
Stack   == {"lwip", "mac", "rings", "start"} \union Running

\* Attempts to initialise the EMAC.
AttemptInv ==
  /\ at \notin ToNvic => "nvic" \in done
  /\ at \notin ToPins => "pins" \in done
  /\ at \notin ToReset => "rmii" \in done
  /\ at \in {"reset", "phy"} => pc = "boot"
  /\ at = "dma" => pc /= "boot"
  /\ at = "tmr" /\ pc /= "boot" => "dma" \in done

\* What follows the attempt that succeeded.
StackInv ==
  /\ at \in Stack => pc /= "boot" /\ {"dma", "tmr"} \subseteq done
  /\ at \in Stack \ {"lwip"} => "lwip" \in done
  /\ at \in Stack \ {"lwip", "mac"} => "address" \in done
  /\ at \in Running \union {"start"} => "rings" \in done
  /\ at \in {"listen", "loop"} => "callback" \in done
  /\ at = "loop" => "server" \in done
  /\ started => at \in Running

SetupInv == AttemptInv /\ StackInv

LEMMA InitSetupInv == BootInit => SetupInv
  BY DEF BootInit, Init, SetupInv, AttemptInv, StackInv, ToNvic, ToPins,
         ToReset, Running, Stack

\* Steps that leave the set-up as far as it is.
LEMMA OtherStep ==
  /\ SetupInv
  /\ \/ Led \/ Settle \/ Tick \/ (\E t \in Tasks : Wake(t)) \/ Outside
     \/ UNCHANGED bootVars
  => SetupInv'
<1> SUFFICES ASSUME SetupInv,
                    \/ Led \/ Settle \/ Tick \/ (\E t \in Tasks : Wake(t))
                    \/ Outside \/ UNCHANGED bootVars
             PROVE  SetupInv'
  OBVIOUS
<1> USE DEF SetupInv, AttemptInv, StackInv
<1>1. CASE Led
  BY <1>1 DEF Led, LedInit, LedToggle, vars, netif, board
<1>2. CASE Settle \/ Tick \/ \E t \in Tasks : Wake(t)
  BY <1>2 DEF Settle, Tick, Wake, vars, netif, board
<1>3. CASE Outside
  BY <1>3 DEF Outside, Replug, Negotiate, Disturb, board, netif
<1>4. CASE UNCHANGED bootVars
  BY <1>4 DEF bootVars, vars, netif, board
<1> QED BY <1>1, <1>2, <1>3, <1>4

\* The clocks and the attempts to initialise the EMAC.
LEMMA AttemptStep ==
  /\ SetupInv
  /\ \/ Main \/ NvicConfiguration \/ PinsConfiguration \/ Layer2Configuration
     \/ AwaitDmaReset \/ PhyInit \/ PhyFails \/ DmaConfiguration \/ TmrInit
  => SetupInv'
<1> SUFFICES ASSUME SetupInv,
                    \/ Main \/ NvicConfiguration \/ PinsConfiguration
                    \/ Layer2Configuration \/ AwaitDmaReset \/ PhyInit
                    \/ PhyFails \/ DmaConfiguration \/ TmrInit
             PROVE  SetupInv'
  OBVIOUS
<1> USE DEF SetupInv, AttemptInv, StackInv, ToNvic, ToPins, ToReset, Running,
            Stack, Configure, vars, netif
<1>1. CASE Main
  BY <1>1 DEF Main, ClockStep, StartScheduler
<1>2. CASE NvicConfiguration \/ PinsConfiguration
  BY <1>2 DEF NvicConfiguration, PinsConfiguration
<1>3. CASE Layer2Configuration
  \* what the reset takes back is needed only behind it
  BY <1>3 DEF Layer2Configuration, PhyReset, EmacRegisters
<1>4. CASE AwaitDmaReset
  BY <1>4 DEF AwaitDmaReset
<1>5. CASE PhyInit
  BY <1>5 DEF PhyInit, SystemInit
<1>6. CASE PhyFails
  BY <1>6 DEF PhyFails, SystemInitFails
<1>7. CASE DmaConfiguration
  BY <1>7 DEF DmaConfiguration
<1>8. CASE TmrInit
  BY <1>8 DEF TmrInit
<1> QED BY <1>1, <1>2, <1>3, <1>4, <1>5, <1>6, <1>7, <1>8

\* lwIP, the server and the rounds.
LEMMA StackStep ==
  /\ SetupInv
  /\ \/ LwipInit \/ SetMacAddress \/ DescriptorLists \/ EmacStart
     \/ NetifSetUp \/ SetLinkCallback \/ HelloworldInit
     \/ LinkCallback \/ LinkTimeout \/ RoundEnds
  => SetupInv'
<1> SUFFICES ASSUME SetupInv,
                    \/ LwipInit \/ SetMacAddress \/ DescriptorLists
                    \/ EmacStart \/ NetifSetUp \/ SetLinkCallback
                    \/ HelloworldInit
                    \/ LinkCallback \/ LinkTimeout \/ RoundEnds
             PROVE  SetupInv'
  OBVIOUS
<1> USE DEF SetupInv, AttemptInv, StackInv, ToNvic, ToPins, ToReset, Running,
            Stack, Configure, vars, netif
<1>1. CASE LwipInit \/ SetMacAddress \/ DescriptorLists
  BY <1>1 DEF LwipInit, SetMacAddress, DescriptorLists
<1>2. CASE EmacStart
  BY <1>2 DEF EmacStart, LowLevelInit
<1>3. CASE NetifSetUp
  BY <1>3 DEF NetifSetUp, SetUp
<1>4. CASE SetLinkCallback \/ HelloworldInit
  BY <1>4 DEF SetLinkCallback, HelloworldInit
<1>5. CASE LinkCallback
  BY <1>5 DEF LinkCallback, board, SetLinkUp, AwaitLink, AwaitNego, SetMode
<1>6. CASE LinkTimeout
  BY <1>6 DEF LinkTimeout, board, GiveUp, Fail
<1>7. CASE RoundEnds
  BY <1>7 DEF RoundEnds, board, SetLinkDown, SetLinkSame, Start
<1> QED BY <1>1, <1>2, <1>3, <1>4, <1>5, <1>6, <1>7

(***************************************************************************)
(* Clocks, pins, EMAC, PHY, timer, lwIP and descriptors are set up before  *)
(* the MAC and its interrupt use them, whatever attempts failed before.    *)
(***************************************************************************)
THEOREM ReadyBeforeUseAlways == BootSpec => []ReadyBeforeUse
<1>1. BootInit => SetupInv
  BY InitSetupInv
<1>2. SetupInv /\ [BootNext]_bootVars => SetupInv'
  BY OtherStep, AttemptStep, StackStep DEF BootNext, Net, NetSetup
<1>3. SetupInv => ReadyBeforeUse
  BY DEF SetupInv, AttemptInv, StackInv, ReadyBeforeUse, EmacRegisters,
         ToNvic, ToPins, ToReset, Running, Stack
<1> QED BY <1>1, <1>2, <1>3, PTL DEF BootSpec
=============================================================================
