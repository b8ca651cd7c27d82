\* Up to three vehicles with up to five plates, up to three of them on a vehicle.
CONSTANTS
  VehicleOutputs <- MCVehicleOutputs
  PlateOutputs <- MCPlateOutputs
  CharOutputs <- MCCharOutputs
  Unwanted <- MCUnwanted
  Special <- MCSpecial
  Letters <- MCLetters
  Digits <- MCDigits
  VehicleIou = 45
  CharIou = 70
  MaxPlates = 5
SPECIFICATION Spec
INVARIANTS SuppressionIsGreedy OnlyDuplicatesGo StrayNeedsTwoPlates AllReadings
PROPERTY PairsEnd
