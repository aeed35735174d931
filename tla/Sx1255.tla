------------------------------- MODULE Sx1255 -------------------------------
(***************************************************************************)
(* src/sx1255.cpp: the driver of the SX1255 transceiver.  Every register   *)
(* access is a transaction on the SPI bus, which may fail; one that fails  *)
(* writes nothing.  Two gains share a register with other fields and are   *)
(* set by reading it, replacing some bits and writing it back.             *)
(***************************************************************************)
EXTENDS Integers

CONSTANT MaxFailures    \* bound: failures of the hardware

ASSUME MaxFailuresAssumption == MaxFailures \in Nat

VARIABLES chip,         \* the mode: "reset", "standby", "rx" or "tx"
          RXFE1, TXFE1, \* registers of the front ends
          FRF_RX, FRF_TX,
          bridge,       \* CK_SEL, IISM and DIG_BRIDGE are set
          failures      \* failures so far

settings == <<RXFE1, TXFE1, FRF_RX, FRF_TX, bridge>>

Fails == failures < MaxFailures /\ failures' = failures + 1

\* The reset pin; the registers' values before init() are not read by anyone.
ChipReset ==
    /\ chip = "reset"
    /\ RXFE1 = 0 /\ TXFE1 = 0 /\ FRF_RX = 0 /\ FRF_TX = 0
    /\ bridge = FALSE
    /\ failures = 0

(***************************************************************************)
(* The fields of the registers.                                            *)
(***************************************************************************)
LnaField(lna)   == 32 * lna
PgaField(pga)   == 2 * pga
DacField(dac)   == 16 * dac
rx_zin          == 1

MaxLna == 1
MaxPga == 15
Dac    == 2
Mix    == 14

MaxFrf == 16777216      \* three registers of a byte

\* sx1255_calc_freq(): freq * 2^20 / 36864000, rounded down.
CalcFreq(freq) == 32 * (freq \div 1125) + (32 * (freq % 1125)) \div 1125

(***************************************************************************)
(* The driver's functions.                                                 *)
(***************************************************************************)
DefaultFrontEnds ==
    /\ RXFE1' = LnaField(MaxLna) + PgaField(MaxPga) + rx_zin
    /\ TXFE1' = DacField(Dac) + Mix

\* init() sends the mode, the front ends, the clock and the bridge, and returns
\* at the first message that fails.
InitChip ==
    /\ \/ /\ chip' = "standby" /\ DefaultFrontEnds /\ bridge' = TRUE
          /\ UNCHANGED failures
       \/ Fails /\ UNCHANGED <<chip, RXFE1, TXFE1, bridge>>
       \/ Fails /\ chip' = "standby" /\ UNCHANGED <<RXFE1, TXFE1, bridge>>
       \/ Fails /\ chip' = "standby" /\ DefaultFrontEnds /\ UNCHANGED bridge
    /\ UNCHANGED <<FRF_RX, FRF_TX>>

SetRxFreq(freq) ==
    /\ \/ FRF_RX' = CalcFreq(freq) /\ UNCHANGED failures
       \/ Fails /\ UNCHANGED FRF_RX
    /\ UNCHANGED <<chip, RXFE1, TXFE1, FRF_TX, bridge>>

SetTxFreq(freq) ==
    /\ \/ FRF_TX' = CalcFreq(freq) /\ UNCHANGED failures
       \/ Fails /\ UNCHANGED FRF_TX
    /\ UNCHANGED <<chip, RXFE1, TXFE1, FRF_RX, bridge>>

\* A variant that keeps the bits of the PGA's mask.
SetLnaGain_WrongMask(lna) ==
    /\ \/ RXFE1' = (RXFE1 % 2) + LnaField(lna) /\ UNCHANGED failures
       \/ Fails /\ UNCHANGED RXFE1
    /\ UNCHANGED <<chip, TXFE1, FRF_RX, FRF_TX, bridge>>

\* Reads RXFE1, keeps the lower five bits.
SetLnaGain(lna) ==
    /\ \/ RXFE1' = (RXFE1 % 32) + LnaField(lna) /\ UNCHANGED failures
       \/ Fails /\ UNCHANGED RXFE1
    /\ UNCHANGED <<chip, TXFE1, FRF_RX, FRF_TX, bridge>>

\* Reads TXFE1, keeps the upper four bits.
SetTxMixGain(mix) ==
    /\ \/ TXFE1' = 16 * (TXFE1 \div 16) + mix /\ UNCHANGED failures
       \/ Fails /\ UNCHANGED TXFE1
    /\ UNCHANGED <<chip, RXFE1, FRF_RX, FRF_TX, bridge>>

\* switch_rx() and switch_tx() set the mode and wait for the PLL; they fail when
\* the bus does or when the PLL does not lock.
SwitchChipFails(mode) ==
    /\ Fails
    /\ chip' \in {chip, mode}
    /\ UNCHANGED settings

SwitchChip(mode) ==
    /\ chip' = mode
    /\ UNCHANGED <<failures, settings>>

\* switch_rx() does not look at the result of the message that sets the mode.
\* When it was lost, the PLL of the receiver is found locked only by a chip that
\* was receiving all along.
KeepsReceiving ==
    /\ Fails
    /\ chip = "rx"
    /\ UNCHANGED <<chip, settings>>

ChipTypeOK ==
    /\ chip \in {"reset", "standby", "rx", "tx"}
    /\ RXFE1 \in 0 .. 255 /\ TXFE1 \in 0 .. 255
    /\ FRF_RX \in Nat /\ FRF_RX < MaxFrf /\ FRF_TX \in Nat /\ FRF_TX < MaxFrf
    /\ bridge \in BOOLEAN
    /\ failures \in 0 .. MaxFailures
=============================================================================
