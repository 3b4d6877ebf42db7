---------------------------- MODULE MCZtacxLorawan ----------------------------
(***************************************************************************)
(* A small instance of ZtacxLorawan and the settings below it: the leaf's  *)
(* own settings, values of every length that matters, and three contents   *)
(* of the flash.                                                           *)
(***************************************************************************)
EXTENDS ZtacxLorawan, TLC

CONSTANTS
  yes, no,         \* booleans
  eui, eui2, key,  \* credentials of 8 and 16 bytes in hex
  addr,            \* one of 4 bytes
  empty,           \* the empty string
  word             \* a number of two bytes, which no setting here accepts

KeysMC    == {"dev_eui", "app_key", "join_eui", "dev_addr", "nwk_skey", "app_skey"}
SettingMC == KeysMC \cup {"enable", "auth_abp", "auth_otaa"}
ContentMC   == {yes, no, eui, eui2, key, addr, empty, word}

LengthMC ==
  yes :> 1 @@ no :> 1 @@ eui :> 16 @@ eui2 :> 16 @@ key :> 32 @@ addr :> 8
    @@ empty :> 0 @@ word :> 2 @@ Garbage :> 16

KeyLengthMC ==
  [k \in KeysMC |-> CASE k \in {"dev_eui", "join_eui"} -> 8 [] k = "dev_addr" -> 4 [] OTHER -> 16]

WidthMC   == [s \in SettingMC \ KeysMC |-> 1]
DefaultMC == [s \in SettingMC |-> IF s = "enable" THEN yes ELSE IF s \in KeysMC THEN NULL ELSE no]

PlaceMC ==
  "enable" :> 1 @@ "auth_abp" :> 2 @@ "auth_otaa" :> 3 @@ "join_eui" :> 4 @@ "app_key" :> 5
    @@ "dev_addr" :> 6 @@ "nwk_skey" :> 7 @@ "app_skey" :> 8 @@ "dev_eui" :> 9

\* OTAA but for the device's own name, which has to be typed; ABP with a key missing
\* beside an OTAA switch that was a number once; a leaf that is switched off.
Blank == [s \in SettingMC |-> NULL]
Otaa  == [Blank EXCEPT !["auth_otaa"] = yes, !["app_key"] = key, !["join_eui"] = eui]
Abp   == [Blank EXCEPT !["auth_otaa"] = word, !["auth_abp"] = yes, !["dev_eui"] = eui, !["dev_addr"] = addr]
Off   == [Blank EXCEPT !["enable"] = no]
FirstFlashMC == {Otaa, Abp, Off}

TypedMC == {<<"auth_otaa", yes>>, <<"dev_eui", eui2>>, <<"dev_eui", empty>>}

=============================================================================
