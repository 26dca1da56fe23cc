------------------------------ MODULE Commands -------------------------------
(***************************************************************************)
(* What the subcommands of "insta360ctl direct" ask of the camera, and what *)
(* the methods of pkg/direct behind them send and read.  An operation is    *)
(*   [reads, code, payload, ask]:                                           *)
(* the code and payload sent, what the method makes of the response, and    *)
(* the request itself as the user put it, a sequence of byte strings and    *)
(* numbers in ones of length 1, to compare with what the camera makes of    *)
(* the payload.  The methods read                                           *)
(*   "nothing"   the response is waited for and dropped                     *)
(*   "silent"    no response is waited for                                  *)
(*   "whole"     the response is shown as it came                           *)
(* and of a response whose status says success                              *)
(*   "status"    nothing more                                               *)
(*   "bytes"     the payload                                                *)
(*   "battery", "storage", "info", "wifi mode"   what the payload encodes   *)
(***************************************************************************)
EXTENDS Codec

Operation(reads, code, payload, ask) ==
  [reads |-> reads, code |-> code, payload |-> payload, ask |-> ask]

Query(reads, code) == Operation(reads, code, <<>>, <<<<>>>>)

\* The subcommands without arguments whose method sends a code and no payload.
Trigger(code) == Query("nothing", code)
Shutter        == Trigger(3)
RecordStart    == Trigger(4)
RecordStop     == Trigger(5)
TimelapseStart == Trigger(22)
TimelapseStop  == Trigger(23)
Marker         == Trigger(60)
PowerOff       == Query("silent", 55)

\* mode <photo|video|timelapse|hdr|bullettime>
CaptureMode == [photo |-> 0, video |-> 1, timelapse |-> 2, hdr |-> 3, bullettime |-> 4]
SetMode(name) == Operation("nothing", 12, <<CaptureMode[name]>>, <<<<CaptureMode[name]>>>>)

\* hdr <on|off>, also as a truth value or a digit.
Switch(word) == IF word \in {"on", "true", "1"} THEN 1 ELSE 0
SetHDR(word) == Operation("nothing", 51, <<Switch(word)>>, <<<<Switch(word)>>>>)

\* gps <latitude> <longitude> <altitude>: three doubles.  A position is in whole
\* degrees and metres here.
InjectGPS(lat, lon, alt) ==
  Operation("nothing", 53, Float64(lat) \o Float64(lon) \o Float64(alt),
            <<<<lat>>, <<lon>>, <<alt>>>>)

\* Only InjectGPS looks at what it is asked to send.
InRange(op) ==
  op.code = 53 /\ Len(op.payload) = 24 =>
    op.ask[1][1] \in -90 .. 90 /\ op.ask[2][1] \in -180 .. 180

\* raw <cmd-hex> [param-hex...]: any 16-bit code, any bytes.
Raw(code, params) == Operation("whole", code, params, <<params>>)

\* wifi-join --ssid --password: SetWifiConnectionInfo { WifiConnectionInfo { ssid = 1,
\* password = 3 } }.
SetWifiConfig(ssid, password) ==
  Operation("status", 112, Message(1, Text(1, ssid) \o Text(3, password)), <<ssid, password>>)

\* wifi-mode <ap|sta|p2p>: SetWifiMode { wifi_mode = 2 }.
WifiMode == [ap |-> 0, sta |-> 1, p2p |-> 2]
SetWifiMode(name) == Operation("status", 147, Field(2, WifiMode[name]), <<<<WifiMode[name]>>>>)

\* wifi-scan: GetWifiScanInfo { interval = 1, count = 2 }.
GetWifiScanList == Operation("status", 148, Field(1, 5) \o Field(2, 1), <<<<5>>, <<1>>>>)

ResetWifi      == Query("status", 125)
GetWifiConfig  == Query("bytes", 113)
GetCameraState == Query("bytes", 61)
GetWifiMode    == Query("wifi mode", 150)
GetDeviceInfo  == Query("info", 40)

\* GetBatteryInfo asks under another code on a GO 3.
GetBatteryInfo(format) == Query("battery", IF format = "go2" THEN 25 ELSE 18)

\* GetStorageInfo asks an X3; of a GO 3 it has the last push.
GetStorageInfo == Query("storage", 16)

\* What a method makes of the payload of a success.
Parse(op, format, payload) ==
  CASE op.reads = "battery" /\ format = "go2" -> ParseGo3Battery(payload)
    [] op.reads = "battery" /\ format # "go2" -> ParseBattery16(payload)
    [] op.reads = "storage" -> ParseStorage16(payload)
    [] op.reads = "info" -> ParseInfo(payload)
    [] op.reads = "wifi mode" -> VarintField(payload, 1)
    [] OTHER -> payload
=============================================================================
