CONSTANTS
  Inputs = {"Input1"}
  Outputs = {"Output1"}
  Period = 3
  Wrap = 5
  MaxLag = 2
  Events <- MCEvents
  Capacity = 2
  NoEvent = "none"
  EthernetUp = "ETH_GOT_IP"
  WifiUp = "STA_GOT_IP"
  EthernetDown <- MCEthernetDown
  WifiDown <- MCWifiDown
  LostIP = "LOST_IP"
  Noise <- MCNoise
  MaxWaiting = 2
  MaxOutages = 2
  LostBy <- MCLostBy
  RxSize = 3
  WriteRetries = 2
  Inbound = 4
  Outbound = 3
  MaxSockets = 2
  Rollover = 8
  START_DELAY = 2
  SECOND_PERIOD = 2
  REBOOT_TIMEOUT = 2
  KEEPALIVE_PERIOD = 3
  Slow = 1
  MaxRequests = 2
  InputNames <- MCInputNames
  OutputNames <- MCOutputNames
  Backlog = 2
SPECIFICATION BoardSpec
INVARIANTS
  NothingForgotten
  SettlesTrue
  StatusSettles
  
PROPERTIES
  BoardServes
  NetKeepsTrying
  AwsServes
  
  StreamsMove
