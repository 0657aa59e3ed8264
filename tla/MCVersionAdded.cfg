\* With the readings and the option `esphome`.
CONSTANTS
    UseSensor = TRUE
    AddVersion = TRUE
SPECIFICATION RequestSpec
PROPERTY VersionIsAdded
