SPECIFICATION Spec
CONSTANTS
  Torrents = {t1}
  Volumes = {v1, v2}
  NoVolume = no_volume

PROPERTY BatteryNeverResumesManualPause
