----------------------------- MODULE MCDesigns -----------------------------
(* Two small compartments and a large one; two cars, a motorcycle, a bus.  *)
EXTENDS Designs, TLC

CONSTANTS s1, s2, l1, car1, car2, motorcycle, bus, text1, text2
MCCompartments == {s1, s2, l1}
MCSizes == {"SMALL", "LARGE"}
MCSizeOf == (s1 :> "SMALL" @@ s2 :> "SMALL" @@ l1 :> "LARGE")
MCVehicles == {car1, car2, motorcycle, bus}
MCVehicleType == (car1 :> "CAR" @@ car2 :> "CAR"
                      @@ motorcycle :> "MOTORCYCLE" @@ bus :> "BUS")
MCContents == {<<text1>>, <<text2>>}
=============================================================================
