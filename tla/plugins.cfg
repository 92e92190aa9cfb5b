CONSTANTS
  c1 = c1
  c2 = c2
  d1 = d1
  d2 = d2
  d3 = d3
  d4 = d4
  Sources = {"HDMI1"}
  Modes = {"standard", "game"}
  Formats = {"SDR", "DV"}
  Unsupported = {}
  PartOf <- MCPartOf
  DefaultMode = "standard"
  HdrFormats = {"DV"}
  HdrModes = {"Dark", "Game"}
  Follow = {"Plain", "DolbyVisionMode", "HDRMode", "LowLatencyState", "CMS", "WhiteBalance"}
  VideoFormats = {"NONE", "DV"}
  MaxTrouble = 1
  Devices = {d1, d2, d3, d4}
  Ports = {1, 2}
  Places <- MCPlaces
  None = None
  TV = TV
  Unknown = Unknown
  MaxByte = 2
  MaxEvents = 5
  HdmiPorts = {0, 1}
  CompositePorts = {10}
  Signals = {"noSignal", "stable"}
  Rates = {2398, 24000}
  VrrTypes = {"HDMI"}
  Contents = {0, 1}
  MixerLevels = {50}
  Planes = {1, 2}
  MaxChanges = 3
  MaxFaults = 1
  Delays = {31, 700}
  MaxReports = 3
  MaxPortChanges = 2
  Clients = {k1}
  Workers = {1, 2}
  Names = {"Den"}
  DefaultName = "TV Box"
  VendorTexts = {16777217}
  Invalid = Invalid
  MaxCalls = 2
  MaxCrashes = 2

SPECIFICATION PartsSpec

INVARIANTS
  PartsTypeOK
  TypeOK
  StoredIsSaved
  PanelShowsStored
  ModeInForce
  OneActiveSource
  ClientKnowsSource
  PortsTrue
  RouteIsPath
  MixerRestorable
  EventsConverge
  PlaneTrue
  LatencyAgrees
  HdcpLastWord
  SettingsKept

SYMMETRY AnyCaller

\* A part stops when its bounds are used up.
CHECK_DEADLOCK FALSE
