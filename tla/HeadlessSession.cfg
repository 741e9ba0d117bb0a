\* Four frames or requests.
SPECIFICATION Spec
CONSTANT MaxFrames = 4
CHECK_DEADLOCK FALSE
PROPERTY OutcomeStands WireStaysWhole RunReturns TornDown
