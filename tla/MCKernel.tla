------------------------------ MODULE MCKernel ------------------------------
(* One key of each kind: plain, behind E0 with the shift codes that come    *)
(* with it under Num Lock and with the shift held, Print Screen, Pause, and *)
(* a key that the driver does not know.                                     *)
EXTENDS Kernel

Key(press, release) == [kind \in Kinds |-> IF kind = "press" THEN press ELSE release]

MCCodes ==
    [k \in {"a", "up", "shifted up", "print", "pause", "gui"} |->
       CASE k = "a"     -> Key(<<30>>, <<158>>)
         [] k = "up"    -> Key(<<224, 42, 224, 72>>, <<224, 200, 224, 170>>)
         [] k = "shifted up" -> Key(<<224, 170, 224, 72>>, <<224, 200, 224, 42>>)
         [] k = "print" -> Key(<<224, 42, 224, 55>>, <<224, 183, 224, 170>>)
         [] k = "pause" -> Key(<<225, 29, 69, 225, 157, 197>>, <<>>)
         [] k = "gui"   -> Key(<<224, 91>>, <<224, 219>>)]

MCNamed ==
    [k \in DOMAIN MCCodes |->
       CASE k = "a"     -> "A"
         [] k \in {"up", "shifted up"} -> "UPARROW"
         [] OTHER       -> NoKey]
=============================================================================
