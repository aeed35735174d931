------------------------------ MODULE Sdrnode ------------------------------
(***************************************************************************)
(* src/sdrnode.cpp: the radio front end.  It owns an ALSA device that is   *)
(* open for capture or for playback, the GPIOs of the power amplifier and  *)
(* of the antenna relay, the SX1255 transceiver, and the flag tx_nRx that  *)
(* decides whether receive() or transmit() does anything.  Opening the     *)
(* device and switching the transceiver may fail; GPIO writes do not.      *)
(***************************************************************************)
EXTENDS Sx1255, Sequences

CONSTANTS RxFrequency, TxFrequency,   \* in Hz, corrected and in range
          LnaDb, MixSetting           \* gains as the configuration file has them

ASSUME FrequencyAssumption ==
    /\ RxFrequency \in Nat /\ 400000000 <= RxFrequency /\ RxFrequency <= 510000000
    /\ TxFrequency \in Nat /\ 400000000 <= TxFrequency /\ TxFrequency <= 510000000

ASSUME GainAssumption == LnaDb \in Int /\ MixSetting \in Nat

\* getSDRNodeConfig(): the gains of the LNA, numbered from LNA_GAIN_MAX = 1; any
\* other value in the file, or none, stands for -24 dB.
LnaSteps == <<0, -6, -12, -24, -36, -48>>
LnaGain  == IF \E i \in 1 .. 6 : LnaSteps[i] = LnaDb
              THEN CHOOSE i \in 1 .. 6 : LnaSteps[i] = LnaDb
              ELSE 4

MixGain == IF MixSetting > 15 THEN 15 ELSE MixSetting

VARIABLES pcm,          \* pcm_hdl: "capture", "playback" or "none" (null)
          pa,           \* amplifier, bias and relay are set for transmission
          tx_nRx,
          leaked        \* a handle was dropped without being closed

sdrVars == <<pcm, pa, tx_nRx, leaked, chip, failures, settings>>

\* open_pcm_rx() or open_pcm_tx() fails: in snd_pcm_open, or later, when the
\* handle is set to null without a close.  The device the leaked handle keeps
\* busy may then refuse every other open.
OpenFails ==
    /\ pcm' = "none"
    /\ \/ Fails /\ leaked' \in BOOLEAN /\ (leaked => leaked')
       \/ leaked /\ UNCHANGED <<leaked, failures>>

SdrInit ==
    /\ ChipReset
    /\ pcm = "none" /\ pa = FALSE /\ tx_nRx = FALSE /\ leaked = FALSE

\* The end of the constructor, which ignores what open_pcm_rx() returns.
FirstOpen ==
    /\ \/ pcm' = "capture" /\ UNCHANGED <<leaked, failures>>
       \/ OpenFails
    /\ UNCHANGED <<pa, tx_nRx, chip, settings>>

FirstSwitch ==
    /\ SwitchChip("rx") \/ SwitchChipFails("rx")
    /\ pa' = FALSE /\ tx_nRx' = FALSE
    /\ UNCHANGED <<pcm, leaked>>

\* A variant that drops the flag before the device is open.
RxOpenFails_FlagFirst ==
    /\ OpenFails
    /\ tx_nRx' = FALSE
    /\ UNCHANGED <<pa, chip, settings>>

\* switch_rx() returns before prepare_rx().
RxOpenFails ==
    /\ OpenFails
    /\ UNCHANGED <<pa, chip, settings, tx_nRx>>

RxChipFails ==
    /\ SwitchChipFails("rx")
    /\ pcm' = "capture"
    /\ pa' = FALSE
    /\ UNCHANGED <<tx_nRx, leaked>>

\* A variant that leaves the GPIOs as they are.
RxSucceeds_NoGpio ==
    /\ SwitchChip("rx") \/ KeepsReceiving
    /\ pcm' = "capture" /\ tx_nRx' = FALSE
    /\ UNCHANGED <<pa, leaked>>

RxSucceeds ==
    /\ SwitchChip("rx") \/ KeepsReceiving
    /\ pcm' = "capture" /\ tx_nRx' = FALSE
    /\ pa' = FALSE
    /\ UNCHANGED leaked

SwitchRx == RxOpenFails \/ RxChipFails \/ RxSucceeds

\* switch_tx() calls prepare_tx() first and undoes it.
TxOpenFails ==
    /\ OpenFails
    /\ pa' = FALSE
    /\ UNCHANGED <<chip, settings, tx_nRx>>

\* ... but not when the transceiver fails.
TxChipFails ==
    /\ SwitchChipFails("tx")
    /\ pcm' = "playback"
    /\ pa' = TRUE
    /\ UNCHANGED <<tx_nRx, leaked>>

TxSucceeds ==
    /\ SwitchChip("tx")
    /\ pcm' = "playback" /\ tx_nRx' = TRUE
    /\ pa' = TRUE
    /\ UNCHANGED leaked

SwitchTx == TxOpenFails \/ TxChipFails \/ TxSucceeds

\* receive() reads samples; it returns none while tx_nRx holds.  transmit() is
\* its mirror image.  Either aborts the process on a null handle.
Receives     == ~tx_nRx /\ pcm = "capture"
Transmits    == tx_nRx /\ pcm = "playback"
UsesNull(up) == up = tx_nRx /\ pcm = "none"

SdrTypeOK == /\ ChipTypeOK
             /\ pcm \in {"capture", "playback", "none"}
             /\ pa \in BOOLEAN /\ tx_nRx \in BOOLEAN /\ leaked \in BOOLEAN

\* Each setting of the chip has its value, its neighbours in the register too.
Configured ==
    /\ RXFE1 = LnaField(LnaGain) + PgaField(MaxPga) + rx_zin
    /\ TXFE1 = DacField(Dac) + MixGain
    /\ FRF_RX = CalcFreq(RxFrequency) /\ FRF_TX = CalcFreq(TxFrequency)
    /\ bridge
=============================================================================
