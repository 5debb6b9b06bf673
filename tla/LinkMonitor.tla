---------------------------- MODULE LinkMonitor -----------------------------
(***************************************************************************)
(* The link supervision of at32_emac.c: ethernetif_set_link polls the PHY  *)
(* and sets the netif's link flag; the link callback                       *)
(* ethernetif_update_config then configures the MAC to the negotiated mode *)
(* and starts it, or stops it.                                             *)
(*                                                                         *)
(* The PHY is external.  Its link status bit latches low, as IEEE 802.3    *)
(* has it: after a loss of the link it reads 0 once, even if the link is   *)
(* back.  A register access over MDIO fails (returns ERROR) while mdio is  *)
(* "bad".                                                                  *)
(*                                                                         *)
(* Boot runs this thread from reset on and beside the other one; fairness  *)
(* is stated there.                                                        *)
(***************************************************************************)
EXTENDS Naturals

CONSTANT Modes      \* speed and duplex of a link

VARIABLES
  partner,      \* what is at the other end of the cable: a mode or "none"
  phy_up,       \* the PHY has negotiated a link
  phy_mode,     \* PHY_SPECIFIED_CS_REG
  latch,        \* the link was lost since PHY_STATUS_REG was read
  mdio,
  link_up,      \* NETIF_FLAG_LINK_UP
  up,           \* NETIF_FLAG_UP
  started,      \* emac_start, emac_stop
  mac_mode,     \* emac_fast_speed_set, emac_duplex_mode_set
  conf,         \* result of the last emac_speed_config
  pc            \* where hNetHelloThread is

phy   == <<partner, phy_up, phy_mode, latch, mdio>>
netif == <<link_up, up, started>>
vars  == <<phy, netif, mac_mode, conf, pc>>

Init ==
  /\ partner \in Modes \union {"none"}
  /\ phy_up \in BOOLEAN
  /\ phy_mode \in Modes
  /\ phy_up => phy_mode = partner
  /\ latch \in BOOLEAN
  /\ mdio \in {"ok", "bad"}
  /\ link_up = FALSE
  /\ up = FALSE
  /\ started = FALSE
  /\ mac_mode \in Modes
  /\ conf = "none"
  /\ pc = "boot"

-----------------------------------------------------------------------------
(***************************************************************************)
(* The cable, the PHY and the MDIO bus                                     *)
(***************************************************************************)
Replug ==
  /\ partner' \in (Modes \union {"none"}) \ {partner}
  /\ phy_up' = FALSE
  /\ latch' = (latch \/ phy_up)
  /\ UNCHANGED <<phy_mode, mdio, netif, mac_mode, conf, pc>>

Negotiate ==
  /\ partner /= "none"
  /\ ~phy_up
  /\ phy_up' = TRUE
  /\ phy_mode' = partner
  /\ UNCHANGED <<partner, latch, mdio, netif, mac_mode, conf, pc>>

Disturb ==
  /\ mdio' \in {"ok", "bad"} \ {mdio}
  /\ UNCHANGED <<partner, phy_up, phy_mode, latch, netif, mac_mode, conf, pc>>

\* A read of PHY_STATUS_REG; one that fails may have reached the PHY or not.
Linked == mdio = "ok" /\ phy_up /\ ~latch

StatusRead ==
  /\ latch' \in IF mdio = "ok" THEN {~phy_up} ELSE {latch, ~phy_up}
  /\ UNCHANGED <<partner, phy_up, phy_mode, mdio>>

-----------------------------------------------------------------------------
\* reset_phy: the reset pin of the PHY, whose link goes down.
PhyReset ==
  /\ pc = "boot"
  /\ phy_up' = FALSE
  /\ latch' = TRUE
  /\ UNCHANGED <<partner, phy_mode, mdio, netif, mac_mode, conf, pc>>

(***************************************************************************)
(* emac_system_init, tried until it succeeds, resets the PHY once more, by *)
(* its control register, and finds the reset bit clear in time: a link     *)
(* must be negotiated anew.                                                *)
(***************************************************************************)
SystemInit ==
  /\ pc = "boot"
  /\ mdio = "ok"
  /\ phy_up' = FALSE
  /\ latch' = TRUE
  /\ pc' = "stack"
  /\ UNCHANGED <<partner, phy_mode, mdio, netif, mac_mode, conf>>

(***************************************************************************)
(* An attempt that fails: an access returned ERROR, before or behind the   *)
(* PHY's reset; or, with every access successful, the reset bit was set in *)
(* all of PHY_TIMEOUT reads, or clear only in the last of them.            *)
(***************************************************************************)
SystemInitFails ==
  /\ pc = "boot"
  /\ \/ mdio = "bad" /\ UNCHANGED <<phy_up, latch>>
     \/ phy_up' = FALSE /\ latch' = TRUE
  /\ UNCHANGED <<partner, phy_mode, mdio, netif, mac_mode, conf, pc>>

\* low_level_init takes the link to be up and starts the MAC.
LowLevelInit ==
  /\ pc = "stack"
  /\ link_up' = TRUE
  /\ started' = TRUE
  /\ pc' = "up"
  /\ UNCHANGED <<phy, up, mac_mode, conf>>

SetUp ==
  /\ pc = "up"
  /\ up' = TRUE
  /\ pc' = "idle"
  /\ UNCHANGED <<phy, link_up, started, mac_mode, conf>>

\* Fault: the flag follows the PHY and the callback is not called.
SetLinkDownOnly ==
  /\ pc = "idle"
  /\ StatusRead
  /\ link_up /\ ~Linked
  /\ link_up' = FALSE
  /\ UNCHANGED <<up, started, mac_mode, conf, pc>>

\* ethernetif_set_link finds the link lost: emac_stop and netif_set_down.
SetLinkDown ==
  /\ pc = "idle"
  /\ StatusRead
  /\ link_up /\ ~Linked
  /\ link_up' = FALSE
  /\ started' = FALSE
  /\ up' = FALSE
  /\ UNCHANGED <<mac_mode, conf, pc>>

\* Fault: the MAC starts and is not configured.
SetLinkUpOnly ==
  /\ pc = "idle"
  /\ StatusRead
  /\ ~link_up /\ Linked
  /\ link_up' = TRUE
  /\ pc' = "start"
  /\ UNCHANGED <<up, started, mac_mode, conf>>

SetLinkUp ==
  /\ pc = "idle"
  /\ StatusRead
  /\ ~link_up /\ Linked
  /\ link_up' = TRUE
  /\ pc' = "link"
  /\ UNCHANGED <<up, started, mac_mode, conf>>

SetLinkSame ==
  /\ pc = "idle"
  /\ StatusRead
  /\ link_up <=> Linked
  /\ UNCHANGED <<netif, mac_mode, conf, pc>>

-----------------------------------------------------------------------------
(***************************************************************************)
(* ethernetif_update_config with the link up.  emac_speed_config reads     *)
(* PHY_STATUS_REG until the link is up, writes the auto-negotiation bit,   *)
(* reads it until negotiation is complete, each PHY_TIMEOUT times at most, *)
(* and sets the MAC to the mode that it then reads.                        *)
(***************************************************************************)
Fail ==
  /\ conf' = "error"
  /\ pc' = "start"
  /\ UNCHANGED <<netif, mac_mode>>

AwaitLink ==
  /\ pc = "link"
  /\ StatusRead
  /\ \/ Linked /\ pc' = "nego" /\ UNCHANGED <<netif, mac_mode, conf>>
     \/ mdio = "ok" /\ ~Linked /\ UNCHANGED <<netif, mac_mode, conf, pc>>

AwaitNego ==
  /\ pc = "nego"
  /\ StatusRead
  /\ mdio = "ok"
  /\ pc' = IF phy_up THEN "mode" ELSE "nego"
  /\ UNCHANGED <<netif, mac_mode, conf>>

\* An access failed, or what is awaited came in the last of PHY_TIMEOUT reads
\* at the earliest: one that succeeds then counts as a timeout.
GiveUp ==
  /\ pc \in {"link", "nego", "mode"}
  /\ pc = "mode" => mdio = "bad"
  /\ IF pc = "mode" THEN UNCHANGED phy ELSE StatusRead
  /\ Fail

\* Fault: the bits that tell the mode are taken as they are.
SetModeAnyway ==
  /\ pc = "mode"
  /\ mdio = "ok"
  /\ mac_mode' = IF phy_up THEN phy_mode ELSE "none"
  /\ conf' = "ok"
  /\ pc' = "start"
  /\ UNCHANGED <<phy, netif>>

\* A PHY without a link shows no mode and the MAC keeps the one it has.
SetMode ==
  /\ pc = "mode"
  /\ mdio = "ok"
  /\ mac_mode' = IF phy_up THEN phy_mode ELSE mac_mode
  /\ conf' = "ok"
  /\ pc' = "start"
  /\ UNCHANGED <<phy, netif>>

\* emac_start, whatever emac_speed_config returned, and netif_set_up
Start ==
  /\ pc = "start"
  /\ started' = TRUE
  /\ up' = TRUE
  /\ pc' = "idle"
  /\ UNCHANGED <<phy, link_up, mac_mode, conf>>

-----------------------------------------------------------------------------
Thread ==
  \/ PhyReset \/ SystemInit \/ SystemInitFails \/ LowLevelInit \/ SetUp
  \/ SetLinkDown \/ SetLinkUp \/ SetLinkSame
  \/ AwaitLink \/ AwaitNego \/ GiveUp \/ SetMode \/ Start

Next == Replug \/ Negotiate \/ Disturb \/ Thread

Spec == Init /\ [][Next]_vars

-----------------------------------------------------------------------------
TypeOK ==
  /\ partner \in Modes \union {"none"}
  /\ phy_up \in BOOLEAN
  /\ phy_mode \in Modes
  /\ latch \in BOOLEAN
  /\ mdio \in {"ok", "bad"}
  /\ link_up \in BOOLEAN
  /\ up \in BOOLEAN
  /\ started \in BOOLEAN
  /\ mac_mode \in Modes
  /\ conf \in {"none", "ok", "error"}
  /\ pc \in {"boot", "stack", "up", "idle", "link", "nego", "mode", "start"}

(***************************************************************************)
(* A MAC that works in another mode than the PHY is bound to be noticed:   *)
(* the link is down for the netif, or the PHY will report the loss that    *)
(* brought the new mode.  However short the loss, and wherever in          *)
(* emac_speed_config it comes.                                             *)
(***************************************************************************)
StaleModeIsNoticed ==
  pc = "idle" /\ link_up /\ phy_up /\ ~latch /\ conf /= "error"
    => mac_mode = phy_mode

(***************************************************************************)
(* Once the PHY is initialised and with a partner that stays, the netif    *)
(* ends up, running and in the partner's mode, unless emac_speed_config    *)
(* failed the last time.                                                   *)
(***************************************************************************)
LinkComesUp ==
  \A m \in Modes :
     <>[](pc /= "boot" /\ partner = m /\ mdio = "ok" /\ conf /= "error")
       => <>[](link_up /\ up /\ started /\ mac_mode = m)

(***************************************************************************)
(* at32_emac.c:555-556: the link callback updates the low level driver's   *)
(* configuration on a change of the link.  So a partner that stays finds   *)
(* the MAC in its mode in the end, whatever happened to the callback once. *)
(***************************************************************************)
ModeIsUpdated ==
  \A m \in Modes :
     <>[](pc /= "boot" /\ partner = m /\ mdio = "ok") => <>(mac_mode = m)

\* Without a partner the netif ends down and the MAC stopped.
LinkGoesDown ==
  <>[](pc /= "boot" /\ partner = "none" /\ mdio = "ok")
    => <>[](~link_up /\ ~up /\ ~started)
=============================================================================
