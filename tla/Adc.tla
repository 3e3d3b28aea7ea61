--------------------------------- MODULE Adc ----------------------------------
(***************************************************************************)
(* The AD converter: ad.c and the converter's driver under it.  Three      *)
(* programs share the one channel of ADCA, each a sequence of calls: the   *)
(* reading of the battery, the calibration of the detector and the         *)
(* measurement of the dust, which goes on to the light.  They select their *)
(* input and reference, start conversions, wait for them and switch the    *)
(* converter off again; no call knows what the one before left behind but  *)
(* by the registers and the driver's count of enables.                     *)
(*                                                                         *)
(* A call is atomic: no interrupt handler uses the converter.  The         *)
(* converter works next to the program.                                    *)
(***************************************************************************)
EXTENDS Integers, Sequences

CONSTANT SAMPLES  \* conversions of a loop: SAMPLENUM, 1 << 14, 128 in the code

ASSUME SamplesAssumption == SAMPLES \in Nat /\ SAMPLES > 0

VARIABLES
    todo,               \* the calls the running program has left
    adca_enable_count,  \* a uint8_t
    clocked,            \* the converter's bit of the power reduction is off
    enabled,            \* CTRLA.ENABLE
    setting,            \* MUXCTRL and REFCTRL: an input and a reference
    converting,         \* the setting of the conversion under way, or Idle
    flag,               \* INTFLAGS.CH0IF
    res,                \* CH0.RES, as the setting it was converted with
    asked               \* the input the running program asked for
adc_vars == <<todo, adca_enable_count, clocked, enabled, setting, converting,
              flag, res, asked>>

Idle == <<>>
Channels == {"battery", "dust", "light"}

(* The battery is measured against the bandgap, the sensors against their  *)
(* supply.                                                                 *)
Reference(channel) == IF channel = "battery" THEN "BANDGAP" ELSE "AREFA"

-------------------------------------------------------------------------------
(* The programs.  The name of a channel stands for ad_swap_channel,        *)
(* "ensure" for the adc_enable of ad_read and "drop" for the adc_disable   *)
(* of caldust, which both look at the driver's count first.                *)
Repeat(n, calls) == [i \in 1 .. n * Len(calls) |-> calls[((i - 1) % Len(calls)) + 1]]

Read == <<"ensure", "start", "wait">>

GetLevel == <<"battery">> \o Read \o <<"disable">>

Calibrate == <<"dust", "enable">> \o Repeat(SAMPLES, Read) \o <<"disable">>

\* Mutant for ReadsItsOwn: the conversion the loop started last is not waited for.
CaldustHasty ==
    <<"drop", "dust", "enable", "start">> \o Repeat(SAMPLES, <<"wait", "start">>)
    \o <<"disable", "light", "enable">> \o Repeat(SAMPLES, <<"start", "wait">>)
    \o <<"disable">>

Caldust ==
    <<"drop", "dust", "enable", "start">> \o Repeat(SAMPLES, <<"wait", "start">>)
    \o <<"wait", "disable", "light", "enable">>
    \o Repeat(SAMPLES, <<"start", "wait">>) \o <<"disable">>

-------------------------------------------------------------------------------
(* The calls.                                                              *)
Is(call) == todo # <<>> /\ Head(todo) = call /\ todo' = Tail(todo)

EnableAdc ==
    /\ adca_enable_count' = (adca_enable_count + 1) % 256
    /\ clocked' = (clocked \/ adca_enable_count = 0)
    /\ enabled' = TRUE
    /\ UNCHANGED converting

\* A conversion under way when the converter is switched off is lost.
DisableAdc ==
    /\ adca_enable_count' = (adca_enable_count - 1) % 256
    /\ clocked' = (clocked /\ adca_enable_count # 1)
    /\ enabled' = FALSE
    /\ converting' = Idle

Leave == UNCHANGED <<adca_enable_count, clocked, enabled, converting>>

(* ad_swap_channel switches the converter off, and not on again; reading   *)
(* and writing the configuration needs only its clock, in between.         *)
Swap(channel) ==
    /\ Is(channel)
    /\ IF adca_enable_count # 0 THEN DisableAdc ELSE Leave
    /\ setting' = <<channel, Reference(channel)>>
    /\ asked' = channel
    /\ UNCHANGED <<flag, res>>

Enable ==
    /\ \/ Is("enable") /\ EnableAdc
       \/ Is("ensure") /\ IF adca_enable_count = 0 THEN EnableAdc ELSE Leave
    /\ UNCHANGED <<setting, flag, res, asked>>

Disable ==
    /\ \/ Is("disable") /\ DisableAdc
       \/ Is("drop") /\ IF adca_enable_count # 0 THEN DisableAdc ELSE Leave
    /\ UNCHANGED <<setting, flag, res, asked>>

\* Nothing is converted while the converter is off.
Start ==
    /\ Is("start")
    /\ converting' = IF enabled /\ clocked THEN setting ELSE converting
    /\ UNCHANGED <<adca_enable_count, clocked, enabled, setting, flag, res, asked>>

\* The loop around the flag, its clearing and the reading of the result.
Wait ==
    /\ flag
    /\ Is("wait")
    /\ flag' = FALSE
    /\ UNCHANGED <<adca_enable_count, clocked, enabled, setting, converting, res, asked>>

Call == (\E channel \in Channels : Swap(channel)) \/ Enable \/ Disable \/ Start \/ Wait

(* The converter ends a conversion.                                        *)
Complete ==
    /\ converting # Idle
    /\ res' = converting
    /\ flag' = TRUE
    /\ converting' = Idle
    /\ UNCHANGED <<todo, adca_enable_count, clocked, enabled, setting, asked>>

-------------------------------------------------------------------------------
\* After sysclk_init, which takes the clocks of all peripherals away.
InitAdc ==
    /\ todo = <<>>
    /\ adca_enable_count = 0 /\ clocked = FALSE /\ enabled = FALSE
    /\ setting = <<"none", "none">> /\ converting = Idle
    /\ flag = FALSE /\ res = <<"none", "none">>
    /\ asked = "none"

(* ad_init selects the battery by ad_swap_channel and then writes the      *)
(* configuration it had read before over it: the reference is AREFA again. *)
AdInit ==
    /\ setting' = <<"battery", "AREFA">>
    /\ asked' = "battery"
    /\ UNCHANGED <<todo, adca_enable_count, clocked, enabled, converting, flag, res>>

-------------------------------------------------------------------------------
(* Properties.                                                             *)

(* Whoever waits for a conversion waits for one that is under way or done, *)
(* and what it gets was converted from the input it selected against the   *)
(* reference of that input, never a result an earlier program left behind; *)
(* and when a program is done, the converter is off, without a clock, and  *)
(* holds no result for the next to find.                                   *)
ReadsItsOwn ==
    /\ (todo # <<>> /\ Head(todo) = "wait") =>
           /\ converting # Idle \/ flag
           /\ flag => res = <<asked, Reference(asked)>>
    /\ todo = <<>> => ~enabled /\ ~clocked /\ ~flag /\ adca_enable_count = 0
===============================================================================
