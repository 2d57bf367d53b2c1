--------------------------- MODULE SensorScripts ---------------------------
(* What the sensor drivers of i2c_sensor.c say on the bus.  A driver's       *)
(* detect, init and read functions are straight lines of transactions, each  *)
(* of which ends the function when it fails: here they are sequences of      *)
(* steps, and what is computed from the bytes of a successful read is left   *)
(* out.  Registers and their contents are written as the hexadecimal bytes   *)
(* the driver sends and compares with; a masked comparison lists the         *)
(* contents that pass.                                                       *)
EXTENDS Naturals, Sequences

Step(op, reg, want) == [op |-> op, reg |-> reg, want |-> want, at |-> ""]
At(address, step)   == [step EXCEPT !.at = address]   \* not at the sensor's own address

Put(reg)      == Step("put",  reg, <<>>)    \* written, has to be acknowledged
Try(reg)      == Step("try",  reg, <<>>)    \* written, the outcome is ignored
Get(reg)      == Step("get",  reg, <<>>)    \* read, whatever it holds
Is(reg, want) == Step("is",   reg, want)    \* read, and it must hold one of these
Back(reg)     == Step("back", reg, <<>>)    \* read back what was just written
Isnt(reg, want) == Step("isnt", reg, want)  \* fails only if it does hold one of these
Nak(reg)      == Step("nak",  reg, <<>>)    \* must NOT be acknowledged
Kin(n)        == Step("kin",  n, <<>>)      \* the n-th secondary sensor is registered
KinGet(reg)   == Step("kinget", reg, <<>>)  \* a Get, if the second secondary is registered
Flag(reg)     == Step("flag", reg, <<>>)    \* a status read before: set, or give up
Valid         == Step("flag", "valid", <<>>) \* a value the background task left

Driver(detect, init, read) == [detect |-> detect, init |-> init, read |-> read]
Gets(regs) == [i \in 1 .. Len(regs) |-> Get(regs[i])]
Puts(regs) == [i \in 1 .. Len(regs) |-> Put(regs[i])]

(***************************************************************************)
(* Light.                                                                  *)
(***************************************************************************)
Opt3001 == Driver(<<Is("7e", <<"5449">>), Is("7f", <<"3001">>)>>,
                  <<Put("01"), Back("01")>>,
                  <<Get("01"), Flag("ready"), Flag("no overflow"), Get("00")>>)

Veml6075 == Driver(<<Is("0c", <<"2600">>)>>,
                   <<Put("00"), Put("00")>>,
                   Gets(<<"07", "09", "0a", "0b">>))

(* Power off, integration time, gain (twice, with the attenuator, for the    *)
(* apds9930), power on.                                                      *)
Apds9930Start == Puts(<<"80", "81", "8d", "8f", "80">>)
Apds9960Start == Puts(<<"80", "81", "8f", "80">>)
Tmd2771  == Driver(<<Is("92", <<"20", "29">>)>>, Apds9930Start, <<Valid>>)
Apds9930 == Driver(<<Is("92", <<"30">>)>>, Apds9930Start, <<Valid>>)
Apds9960 == Driver(<<Is("92", <<"a8", "ab", "9c">>)>>,
                   Puts(<<"8d", "90">>) \o Apds9960Start, <<Valid>>)

(* A command of the si114x is sent when the chip sleeps and its response     *)
(* register is cleared by a nop, and is done when the response says so; the  *)
(* sequence is tried 16 times, of which this is the last.                    *)
Si114xCommand == <<Get("30"), Flag("asleep"), Put("18"), Get("20"), Flag("response clear"),
                   Put("18"), Get("20"), Flag("done")>>
Si114xGetParam == Si114xCommand \o <<Get("2e")>>
Si114xSetParam == <<Put("17")>> \o Si114xCommand \o Si114xGetParam \o <<Flag("same value")>>
Si114xDetect == <<Get("rx"), Is("00", <<"45", "46", "47">>)>>
                \o Puts(<<"0a", "08", "08", "09", "18">>)
(* Seven parameters of the proximity part, the encoding; the range of the    *)
(* infrared part is read, changed and written; three of the others.          *)
Si114xInit == LET Times[n \in 0 .. 8] ==
                    IF n = 0 THEN <<>> ELSE Times[n - 1] \o Si114xSetParam
              IN <<Kin("first"), Put("07")>> \o Si114xCommand \o Puts(<<"03", "04", "13">>)
                 \o Times[8] \o Si114xGetParam
                 \o Times[4]
Si114xUltravioletRead == <<Put("2c")>> \o Si114xSetParam \o Si114xCommand \o <<Get("2c")>>
Si114xVisibleRead == <<Put("22")>> \o Si114xSetParam \o Si114xCommand \o Gets(<<"22", "24">>)
Si114x == Driver(Si114xDetect, Si114xInit, Si114xUltravioletRead)

Max44009 == Driver(<<Is("00", <<"0000">>), Is("01", <<"0000">>), Is("05", <<"efef">>),
                     Is("06", <<"0000">>), Is("07", <<"ffff">>)>>,
                   <<Put("02"), Back("02")>>,
                   <<Get("03"), Flag("no overflow")>>)

(* Two addresses, and no registers.                                          *)
Veml6070 == Driver(<<At("39", Is("rx", <<"ff">>)), At("38", Is("rx", <<"ff">>))>>,
                   <<At("38", Put("tx")), At("38", Put("tx")), At("38", Put("tx"))>>,
                   <<At("39", Get("rx")), At("38", Get("rx"))>>)

(* Written with the command and clear bits (c0), read with the command bit.  *)
(* The identification must not be writable: the write may be refused or have *)
(* no effect.  The device is left switched off.                              *)
Tsl2561 == Driver(<<Is("8a", <<"50">>), Is("82", <<"0000">>), Is("84", <<"0000">>),
                    Put("c0"), Back("80"), Try("ca"), Isnt("8a", <<"00">>)>>,
                  <<Put("c6"), Back("86"), Put("c0"), Back("80"), Put("c1"), Back("81")>>,
                  <<>>)

Tsl2591 == Driver(<<Is("91", <<"00">>), Is("92", <<"50">>), Try("92"), Isnt("92", <<"00">>), Try("81")>>,
                  <<Put("80"), Back("80"), Put("81"), Back("81")>>, <<>>)

Tsl2550 == Driver(<<Is("03", <<"03">>), Is("18", <<"1b">>)>>, <<>>, Gets(<<"43", "83">>))

Bh1750Start == Puts(<<"40", "60", "20">>)
Bh1750 == Driver(<<Is("rx", <<"....ffffffffffff">>), Put("01"), Put("07")>>, Bh1750Start, <<>>)

Veml6040 == Driver(<<Is("0e", <<"2301">>), Is("00", <<"00">>)>>, <<Try("00")>>, <<>>)
Veml7700 == Driver(<<Is("07", <<"81c4">>)>>, <<Try("00")>>, <<>>)

(***************************************************************************)
(* Thermometers: six families that share addresses and most registers, told *)
(* apart by the power on contents and by which commands they refuse.        *)
(***************************************************************************)
Tmp75 == Driver(<<Is("01", <<"00", "00a0">>), Is("02", <<"4b00">>), Is("03", <<"5000">>),
                  Nak("04"), Nak("a1"), Nak("a2"), Nak("aa"), Nak("ac")>>,
                <<Put("01"), Back("01")>>, <<Get("00")>>)

(* The two bytes of register 03 are compared with an "and": one is enough.   *)
Ds7505 == Driver(<<Is("01", <<"00", "00a0">>), Is("02", <<"4b00">>), Is("03", <<"5000", "0000">>)>>
                   \o Puts(<<"04", "05", "06", "07">>)
                   \o <<Nak("10"), Nak("a1"), Nak("a2"), Nak("aa"), Nak("ac"), Put("ee")>>,
                 <<Put("01"), Back("01")>>, <<Get("00")>>)

Ds1631 == Driver(<<Try("54"), Is("ac", <<"8c">>), Is("aa", <<"c400">>), Is("a1", <<"0f00">>), Is("a2", <<"0a00">>),
                   Nak("00"), Nak("01"), Nak("02"), Nak("03"), Nak("04")>>,
                 <<Put("22"), Put("ac"), Back("ac"), Put("51")>>, <<Get("aa")>>)

Ds1621 == Driver(<<Is("00", <<"ff80">>), Is("01", <<"ff80">>), Is("02", <<"ff80">>),
                   Is("03", <<"ff80">>), Is("04", <<"ff80">>), Is("a1", <<"5000">>),
                   Is("a2", <<"a000">>), Is("ac", <<"08">>)>>,
                 <<Put("ac"), Back("ac"), Put("ee")>>, <<Get("aa")>>)

Tmp102 == Driver(<<Is("01", <<"00a0">>), Is("02", <<"4b00">>), Is("03", <<"5000">>),
                   Is("06", <<"0000">>), Is("07", <<"0000">>)>>
                   \o Puts(<<"04", "a1", "a2", "aa", "ac">>),
                 <<Put("01"), Back("01")>>, <<Get("00")>>)

Lm75 == Driver(<<Is("01", <<"00", "00a0">>), Is("02", <<"4b00">>), Is("03", <<"5000", "0000">>)>>,
               <<Put("01"), Back("01")>>, <<Get("00")>>)

Mcp9808 == Driver(<<Is("06", <<"0054">>), Is("07", <<"04">>)>>, Puts(<<"01", "08">>), <<Get("05")>>)

(***************************************************************************)
(* Air: pressure, humidity, quality.                                       *)
(***************************************************************************)
Mpl3115a2 == Driver(<<Is("0c", <<"c4">>), Try("26")>>,
                    <<Kin("first"), Is("26", <<"00">>), Put("13"), Put("26")>>, <<Valid>>)

(* The error register is read only to be logged.                             *)
Ccs811 == Driver(<<Is("20", <<"81">>), Get("00"), Try("ff"), Get("00"), Flag("app valid"), Put("f4")>>,
                 <<Put("01"), Get("00"), Flag("no error")>>,
                 <<Get("00"), Flag("no error"), Flag("data ready"), Get("02")>>)

Sht30Access(cmd) == <<Put(cmd), Get("rx"), Flag("checksum")>>
Sht30 == Driver(Puts(<<"3093", "30a2">>),
                Sht30Access("f32d") \o <<Flag("status"), Put("3041")>>
                  \o Sht30Access("f32d") \o <<Flag("status"), Put("2400")>>,
                <<Valid>>)

Hdc1080 == Driver(<<Is("fe", <<"5449">>), Is("ff", <<"1050">>), Put("02")>>,
                  Puts(<<"02", "00">>), <<Valid>>)

Htu21 == Driver(<<Put("e7"), Get("rx"), Try("fe")>>,
                <<Put("e7"), Get("rx"), Put("e6"), Put("e7"), Get("rx"), Flag("as written"), Put("f3")>>,
                <<Valid>>)

(* Identification at d0, then a reset.                                       *)
BoschDetect(id) == <<Is("d0", <<id>>), Put("e0")>>
Bme680 == Driver(BoschDetect("61"),
                 <<Kin("first"), Kin("second"), Put("74"), Get("rx"), Flag("asleep")>> \o Gets(<<"89", "e1">>) \o Puts(<<"75", "70">>),
                 Gets(<<"1d", "22">>))
(* The pressure and the humidity are computed with the temperature.          *)
Bme680PressureRead == Gets(<<"1d", "22", "1f">>)
Bme680HumidityRead == Gets(<<"1d", "22", "25">>)

Bmx280Calibration == Gets(<<"88", "8a", "8c", "8e", "90", "92", "94", "96", "98", "9a", "9c", "9e">>)
Bmx280Humidity == LET regs == <<"a1", "e1", "e3", "e4", "e5", "e6", "e7">>
                  IN [i \in 1 .. Len(regs) |-> KinGet(regs[i])]
Bmx280Reset == <<Kin("first"), Get("e0"), Flag("reset done")>>
Bmx280Read  == <<Get("f7")>>
Bmx280Init  == Bmx280Reset \o Bmx280Calibration \o Bmx280Humidity
Bme280 == Driver(BoschDetect("60"), Bmx280Init, Bmx280Read)
Bmp280 == Driver(BoschDetect("58"), Bmx280Init, Bmx280Read)

Bmp085 == Driver(BoschDetect("55"), <<Kin("first")>> \o Gets(<<"aa", "ac", "ae", "b0", "b2", "b4", "b6", "b8", "bc", "be">>),
                 <<Valid>>)

(* Woken by a transaction it does not answer; the identification is not      *)
(* compared, only the reply's shape and its checksum.                        *)
Am2320 == Driver(<<Try("wake"), Put("03"), Is("rx", <<"0302">>), Flag("checksum")>>, <<>>, <<>>)

Hih6130   == Driver(<<Get("rx")>>, <<>>, <<Put("tx"), Get("rx"), Flag("normal")>>)
Digipicco == Driver(<<Get("rx")>>, <<>>, <<Get("rx")>>)

(* Four attempts to reach it after its reset, of which this is the last.     *)
Aht10 == Driver(<<Get("rx"), Try("ba")>>, <<Get("rx"), Put("e1")>>, <<Valid>>)
=============================================================================
