-------------------------------- MODULE Boot --------------------------------
(***************************************************************************)
(* The firmware from reset on: main configures the clocks and starts two   *)
(* FreeRTOS tasks of one priority.  hNetHelloThread sets up EMAC, PHY,     *)
(* timer and lwIP and then polls the link (LinkMonitor) once in a round;   *)
(* LedToggleThread toggles the LED.  EMAC_IRQHandler may run as soon as    *)
(* the MAC is started inside netif_add, long before the set-up is over.    *)
(*                                                                         *)
(* The hardware ends what the code polls for (clocks, the DMA's reset) and *)
(* FreeRTOS schedules: both are external.                                  *)
(***************************************************************************)
EXTENDS LinkMonitor

VARIABLES
  at,         \* how far the set-up is
  settled,    \* the hardware has done what a loop waits for
  done,       \* what is configured
  run,        \* who has the CPU
  ready,      \* the tasks that are not in vTaskDelay
  led         \* PD13

board    == <<at, settled, done>>
cpu      == <<run, ready>>
bootVars == <<vars, board, cpu, led>>

Tasks == {"net", "led"}

BootInit ==
  /\ Init
  /\ at = "hext"
  /\ settled = FALSE
  /\ done = {}
  /\ run = "main"
  /\ ready = {}
  /\ led = FALSE

-----------------------------------------------------------------------------
(***************************************************************************)
(* Hardware and scheduler                                                  *)
(***************************************************************************)
\* The DMA's reset ends only if the PHY gives it its clock.
Settle ==
  /\ at \in {"hext", "pll", "switch", "reset"}
  /\ at = "reset" => {"pins", "rmii"} \subseteq done
  /\ ~settled
  /\ settled' = TRUE
  /\ UNCHANGED <<vars, at, done, cpu, led>>

\* Fault: configUSE_TIME_SLICING is 0.
TickNoSlicing ==
  /\ run = "idle"
  /\ \E t \in ready : run' = t
  /\ UNCHANGED <<vars, board, ready, led>>

\* Two ready tasks of one priority share the CPU tick by tick.
Tick ==
  /\ \E t \in ready \ {run} : run' = t
  /\ UNCHANGED <<vars, board, ready, led>>

\* The delay of a task is over.
Wake(t) ==
  /\ run /= "main"
  /\ t \notin ready
  /\ ready' = ready \union {t}
  /\ run' = IF run = "idle" THEN t ELSE run
  /\ UNCHANGED <<vars, board, led>>

\* vTaskDelay
Sleep(t) ==
  /\ ready' = ready \ {t}
  /\ IF ready' = {} THEN run' = "idle" ELSE run' \in ready'

-----------------------------------------------------------------------------
(***************************************************************************)
(* main                                                                    *)
(***************************************************************************)
\* system_clock_config: crystal, PLL and switch-over, each waited for.
ClockStep ==
  /\ settled
  /\ \/ at = "hext" /\ at' = "pll"
     \/ at = "pll" /\ at' = "switch"
     \/ at = "switch" /\ at' = "tasks"
  /\ settled' = FALSE
  /\ UNCHANGED <<vars, done, cpu, led>>

\* Of tasks with one priority the one that was created last runs first.
StartScheduler ==
  /\ at = "tasks"
  /\ at' = "nvic"
  /\ ready' = Tasks
  /\ run' = "led"
  /\ UNCHANGED <<vars, settled, done, led>>

-----------------------------------------------------------------------------
(***************************************************************************)
(* LedToggleThread                                                         *)
(***************************************************************************)
LedInit ==
  /\ run = "led"
  /\ "led" \notin done
  /\ done' = done \union {"led"}
  /\ UNCHANGED <<vars, at, settled, cpu, led>>

LedToggle ==
  /\ run = "led"
  /\ "led" \in done
  /\ led' = ~led
  /\ Sleep("led")
  /\ UNCHANGED <<vars, board>>

-----------------------------------------------------------------------------
(***************************************************************************)
(* hNetHelloThread: emac_system_init, until it succeeds                    *)
(***************************************************************************)
\* A step of the set-up that only configures something.
Configure(from, to, what) ==
  /\ run = "net"
  /\ at = from
  /\ at' = to
  /\ done' = done \union what
  /\ UNCHANGED <<vars, settled, cpu, led>>

NvicConfiguration == Configure("nvic", "pins", {"nvic"})

PinsConfiguration == Configure("pins", "layer2", {"pins"})

\* What emac_reset takes back.
EmacRegisters == {"dma", "address", "rings"}

\* emac_layer2_configuration up to the wait for the DMA's software reset
Layer2Configuration ==
  /\ run = "net"
  /\ at = "layer2"
  /\ PhyReset
  /\ at' = "reset"
  /\ settled' = FALSE
  /\ done' = (done \ EmacRegisters) \union {"rmii"}
  /\ UNCHANGED <<cpu, led>>

AwaitDmaReset ==
  /\ settled
  /\ Configure("reset", "phy", {})

PhyInit ==
  /\ run = "net"
  /\ at = "phy"
  /\ SystemInit
  /\ at' = "dma"
  /\ UNCHANGED <<settled, done, cpu, led>>

\* The rest of emac_layer2_configuration is left out.
PhyFails ==
  /\ run = "net"
  /\ at = "phy"
  /\ SystemInitFails
  /\ at' = "tmr"
  /\ UNCHANGED <<settled, done, cpu, led>>

DmaConfiguration == Configure("dma", "tmr", {"dma"})

\* Fault: main takes no notice of emac_system_init's result.
TmrInitAnyway == Configure("tmr", "lwip", {"tmr"})

\* emac_tmr_init runs on errors too; then main.c tries again.
TmrInit == Configure("tmr", IF pc = "boot" THEN "nvic" ELSE "lwip", {"tmr"})

-----------------------------------------------------------------------------
(***************************************************************************)
(* tcpip_stack_init and helloworld_init                                    *)
(***************************************************************************)
LwipInit == Configure("lwip", "mac", {"lwip"})

\* Fault: low_level_init starts the MAC before it sets up the lists.
StartBeforeLists == Configure("mac", "start", {"address"})

SetMacAddress == Configure("mac", "rings", {"address"})

\* netif_add calls ethernetif_init, which calls low_level_init.
DescriptorLists == Configure("rings", "start", {"rings"})

EmacStart ==
  /\ run = "net"
  /\ at = "start"
  /\ LowLevelInit
  /\ at' = "up"
  /\ UNCHANGED <<settled, done, cpu, led>>

NetifSetUp ==
  /\ run = "net"
  /\ at = "up"
  /\ SetUp
  /\ at' = "callback"
  /\ UNCHANGED <<settled, done, cpu, led>>

SetLinkCallback == Configure("callback", "listen", {"callback"})

HelloworldInit == Configure("listen", "loop", {"server"})

-----------------------------------------------------------------------------
(***************************************************************************)
(* The thread's rounds, as far as they are about the link                  *)
(***************************************************************************)
LinkCallback ==
  /\ run = "net"
  /\ at = "loop"
  /\ SetLinkUp \/ AwaitLink \/ AwaitNego \/ SetMode
  /\ UNCHANGED <<board, cpu, led>>

LinkTimeout ==
  /\ run = "net"
  /\ at = "loop"
  /\ GiveUp
  /\ UNCHANGED <<board, cpu, led>>

\* What ends a round is followed by vTaskDelay.
RoundEnds ==
  /\ run = "net"
  /\ at = "loop"
  /\ SetLinkDown \/ SetLinkSame \/ Start
  /\ Sleep("net")
  /\ UNCHANGED <<board, led>>

-----------------------------------------------------------------------------
Main == ClockStep \/ StartScheduler

NetSetup ==
  \/ NvicConfiguration \/ PinsConfiguration \/ Layer2Configuration
  \/ AwaitDmaReset \/ PhyInit \/ PhyFails \/ DmaConfiguration \/ TmrInit
  \/ LwipInit \/ SetMacAddress \/ DescriptorLists \/ EmacStart
  \/ NetifSetUp \/ SetLinkCallback \/ HelloworldInit

Net == NetSetup \/ LinkCallback \/ LinkTimeout \/ RoundEnds

Led == LedInit \/ LedToggle

Outside == (Replug \/ Negotiate \/ Disturb) /\ UNCHANGED <<board, cpu, led>>

BootNext ==
  \/ Main \/ Net \/ Led
  \/ Settle \/ Tick \/ \E t \in Tasks : Wake(t)
  \/ Outside

BootSpec == BootInit /\ [][BootNext]_bootVars

(***************************************************************************)
(* Clocks settle; the DMA's reset need not.  The tick comes for ever, and  *)
(* a task that gets the CPU again and again gets on: a slice is a          *)
(* millisecond.  The loops of emac_speed_config are bounded.  A PHY with a *)
(* partner negotiates a link.                                              *)
(***************************************************************************)
BootFairSpec ==
  /\ BootSpec
  /\ WF_bootVars(at /= "reset" /\ Settle)
  /\ WF_bootVars(Main)
  /\ WF_bootVars(Tick)
  /\ \A t \in Tasks : WF_bootVars(Wake(t))
  /\ SF_bootVars(Net)
  /\ SF_bootVars(LinkTimeout)
  /\ SF_bootVars(Led)
  /\ WF_bootVars(Negotiate /\ UNCHANGED <<board, cpu, led>>)

-----------------------------------------------------------------------------
(***************************************************************************)
(* Properties                                                              *)
(***************************************************************************)
Steps == {"hext", "pll", "switch", "tasks",
          "nvic", "pins", "layer2", "reset", "phy", "dma", "tmr",
          "lwip", "mac", "rings", "start", "up", "callback", "listen", "loop"}

Things == {"led", "nvic", "pins", "rmii", "tmr", "lwip", "callback", "server"}
            \union EmacRegisters

BootTypeOK ==
  /\ TypeOK
  /\ at \in Steps
  /\ settled \in BOOLEAN
  /\ done \in SUBSET Things
  /\ run \in Tasks \union {"main", "idle"}
  /\ ready \in SUBSET Tasks
  /\ run \in Tasks => run \in ready
  /\ led \in BOOLEAN

(***************************************************************************)
(* Whenever the MAC runs, and with it the interrupt that enters driver and *)
(* lwIP, all that they use is there: however many attempts were made, and  *)
(* what the last one reset is configured anew.  The thread serves the link *)
(* and the network only with its callback, timer and server in place.      *)
(***************************************************************************)
ReadyBeforeUse ==
  /\ started => {"nvic", "pins", "rmii", "tmr", "lwip"} \union EmacRegisters
                  \subseteq done
  /\ at = "loop" => {"callback", "server"} \subseteq done /\ pc /= "boot"

(***************************************************************************)
(* Once the clocks have settled the LED blinks for ever, also while the    *)
(* network thread tries in vain to reset the PHY or hangs in the wait for  *)
(* the DMA's reset.                                                        *)
(***************************************************************************)
LedBlinks == []<><<LedToggle>>_bootVars

(***************************************************************************)
(* The telnet server comes up, however often emac_system_init failed       *)
(* before, unless the DMA's software reset hangs or the PHY's reset fails  *)
(* again and again.                                                        *)
(***************************************************************************)
ServerListens ==
  []<>(at /= "reset" \/ settled)
    => <>("server" \in done) \/ []<><<PhyFails>>_bootVars
=============================================================================
